---- MODULE Spec2Model ----
(***************************************************************************)
(* Model of the district-boundary pipeline of scripts/                     *)
(* fetch_district_geojson.py (fetch_overpass, parse_data,                  *)
(* perpendicular_distance, douglas_peucker, simplify_ways,                 *)
(* merge_ways_from_ids, build_geojson, main), of scraper._fetch_with_retry *)
(* and scraper.main with its validations and exports, of                   *)
(* generate_data_js.abbreviate and of compare_data.compare_records.        *)
(*                                                                         *)
(* Points are pairs of integers <<lon, lat>>.  The source computes         *)
(* distances in floating point with math.hypot; the model keeps the        *)
(* squared distance as an exact fraction [n, d] and compares fractions by  *)
(* cross-multiplication, which orders them as the real distances are       *)
(* ordered.  Two distances that are equal as fractions are equal in the    *)
(* model; as floats they can differ in the last bit.  Python lists are     *)
(* 0-based; the model keeps the source's 0-based indices (max_idx, i) and  *)
(* reads coords[i] as coords[i + 1].                                       *)
(***************************************************************************)
EXTENDS Integers, Sequences, FiniteSets, TLC

VARIABLES
    pc,               \* position in the run being modelled
    coords,           \* argument of a direct douglas_peucker call
    tolerance,        \* the tolerance, in units of 1/TolScale
    dp_result,        \* outcome of douglas_peucker(coords, tolerance)
    dp_again,         \* outcome of douglas_peucker(dp_result, tolerance)
    ways,             \* parse_data's ways: way id -> raw point list
    districts,        \* parse_data's districts: list of [name, way_ids]
    simplified_ways,  \* simplify_ways' result: way id -> point list
    idx,              \* build_geojson: index of the next district
    features,         \* build_geojson: the features list
    printed,          \* lines printed so far
    stitched,         \* per processed district: what its stitching read and made
    data,             \* main: the payload, a list of elements
    response,         \* main: what the boundary service answered
    requests,         \* main: requests sent to the boundary service
    out_file,         \* docs/districts.geojson: [writes, content]
    retries,          \* _fetch_with_retry: its retries argument
    client,           \* _fetch_with_retry: what client.get will do, call by call
    attempt,          \* _fetch_with_retry: the loop variable
    calls,            \* _fetch_with_retry: calls of client.get so far
    slept,            \* _fetch_with_retry: the waits passed to time.sleep
    fetched,          \* _fetch_with_retry: how the call ended
    record,           \* abbreviate: its argument
    abbreviated,      \* abbreviate: its result
    dp_calls,         \* the splits of douglas_peucker(coords, tolerance), in call order
    dp_kept,          \* the places in coords of the points of dp_result
    old_records,      \* compare_records: its first argument
    new_records,      \* compare_records: its second argument
    summary,          \* compare_records: its result
    argv,             \* scraper.main: the flags of the command line
    restaurants,      \* scraper.main: the data set, record -> how many of it
    files,            \* scraper.main: the output files, each as it is on disk
    evaluated,        \* scraper.main: the validations evaluated so far
    exit_code         \* scraper.main: how the process ended

mainVars == <<data, response, requests, out_file>>

scraperVars == <<retries, client, attempt, calls, slept, fetched, record,
                 abbreviated>>

traceVars == <<dp_calls, dp_kept>>

compareVars == <<old_records, new_records, summary>>

runVars == <<argv, restaurants, files, evaluated, exit_code>>

vars == <<pc, coords, tolerance, dp_result, dp_again, ways, districts,
          simplified_ways, idx, features, printed, stitched, mainVars,
          scraperVars, traceVars, compareVars, runVars>>

----------------------------------------------------------------------------
(* Bounds *)

MaxX == 2            \* longitudes 0..MaxX
MaxLen == 4          \* direct calls: longest point list
MaxTol == 2          \* largest tolerance, in units of 1/TolScale
TolScale == 2        \* tolerances are multiples of 1/TolScale
RecursionLimit == 9  \* interpreter recursion limit (stands for Python's 1000)
MaxWayPts == 3       \* full run: points over all raw ways
MaxWayLen == 3       \* one area: longest point list of a way
MaxIds == 2          \* one area: longest way_ids list
MaxEdgeLen == 2      \* two areas: longest point list of a way
MaxRefs == 2         \* two areas: longest way_ids list
MaxChain == 4        \* one closed chain: most vertices
MaxEnclave == 3      \* two closed sets: most vertices of one
MaxSegs == 3         \* two closed sets: most segments in all
MaxMembers == 2      \* parse_data alone: most members of the relation
MaxAreas == 22       \* main: most mapped relations of a payload
MaxRetries == 3      \* _fetch_with_retry: largest retries argument
MaxFields == 3       \* abbreviate: keys of the record that vary
MaxPath == 5         \* full run on a cut path: points of the path
MaxRecords == 2      \* compare_records: most records of a data set

----------------------------------------------------------------------------
(* Sequence helpers (Python list operations) *)

Last(s) == s[Len(s)]

Front(s) == SubSeq(s, 1, Len(s) - 1)

Reverse(s) == [i \in 1..Len(s) |-> s[Len(s) + 1 - i]]

RECURSIVE SeqsOfLen(_, _)
SeqsOfLen(S, n) ==
    IF n = 0 THEN {<<>>}
    ELSE {Append(s, x) : s \in SeqsOfLen(S, n - 1), x \in S}

SeqsUpTo(S, n) == UNION {SeqsOfLen(S, k) : k \in 0..n}

\* the points of direct calls and raw ways: two latitudes, MaxX + 1 longitudes
Lats == {0, 1}

Grid == {<<x, y>> : x \in 0..MaxX, y \in Lats}

Tolerances == (0 - 1)..MaxTol

----------------------------------------------------------------------------
(* perpendicular_distance, as the squared distance [n / d] *)

Sq(x) == x * x

\* the distance to the line through the two points, t not clamped
perpendicular_distance_unclamped(point, line_start, line_end) ==
    LET dx == line_end[1] - line_start[1]
        dy == line_end[2] - line_start[2]
        px == point[1] - line_start[1]
        py == point[2] - line_start[2]
    IN  IF dx = 0 /\ dy = 0
        THEN [n |-> Sq(px) + Sq(py), d |-> 1]
        ELSE [n |-> Sq(px * dy - py * dx), d |-> dx * dx + dy * dy]

\* lines 61-73
perpendicular_distance(point, line_start, line_end) ==
    LET dx == line_end[1] - line_start[1]
        dy == line_end[2] - line_start[2]
        px == point[1] - line_start[1]
        py == point[2] - line_start[2]
        dot == px * dx + py * dy
        len2 == dx * dx + dy * dy
    IN  IF dx = 0 /\ dy = 0
        THEN [n |-> Sq(px) + Sq(py), d |-> 1]
        ELSE IF dot <= 0                      \* t clamped to 0
        THEN [n |-> Sq(px) + Sq(py), d |-> 1]
        ELSE IF dot >= len2                   \* t clamped to 1
        THEN [n |-> Sq(point[1] - line_end[1]) + Sq(point[2] - line_end[2]),
              d |-> 1]
        ELSE [n |-> Sq(px * dy - py * dx), d |-> len2]

\* d >= max_dist
DistGe(a, b) == a.n * b.d >= b.n * a.d

\* line 85: d > max_dist, both squared distances
DistGt(a, b) == a.n * b.d > b.n * a.d

\* max_dist >= tolerance
ExceedsTolerance_ge(max_dist, tol) ==
    tol <= 0 \/ max_dist.n * Sq(TolScale) >= Sq(tol) * max_dist.d

\* max_dist > tolerance, max_dist a squared distance, tolerance = tol/TolScale
ExceedsTolerance(max_dist, tol) ==
    tol < 0 \/ max_dist.n * Sq(TolScale) > Sq(tol) * max_dist.d

----------------------------------------------------------------------------
(* douglas_peucker.  An outcome is [raised, value]: raised is TRUE when    *)
(* the call ends in RecursionError.                                        *)

Return(v) == [raised |-> FALSE, value |-> v]

Raise == [raised |-> TRUE, value |-> <<>>]

\* the loop of lines 81-87, from index i on
RECURSIVE MaxScan(_, _, _, _)
MaxScan(c, i, max_dist, max_idx) ==
    IF i > Len(c) - 2 THEN [max_dist |-> max_dist, max_idx |-> max_idx]
    ELSE LET d == perpendicular_distance(c[i + 1], c[1], c[Len(c)])
         IN  IF DistGt(d, max_dist)
             THEN MaxScan(c, i + 1, d, i)
             ELSE MaxScan(c, i + 1, max_dist, max_idx)

\* range(2, ...): the first interior point is never measured
FarthestInterior_from2(c) == MaxScan(c, 2, [n |-> 0, d |-> 1], 0)

\* lines 81-87
FarthestInterior(c) == MaxScan(c, 1, [n |-> 0, d |-> 1], 0)

\* left[:-1] + right[:-1]
join_drop_last(left, right) == Front(left) \o Front(right)

\* line 92: left[:-1] + right
join(left, right) == Front(left) \o right

\* [coords[-1], coords[0]]
collapse_swapped(c) == <<c[Len(c)], c[1]>>

\* [coords[0], coords[1]]
collapse_first_two(c) == <<c[1], c[2]>>

\* line 94: [coords[0], coords[-1]]
collapse(c) == <<c[1], c[Len(c)]>>

\* coords[0:]
right_part_whole(c, max_idx) == c

\* line 91: coords[max_idx:]
right_part(c, max_idx) == SubSeq(c, max_idx + 1, Len(c))

\* line 90: coords[: max_idx + 1]
left_part(c, max_idx) == SubSeq(c, 1, max_idx + 1)

\* lines 76-94.  calls lists the calls that split, the call itself first,
\* then those of its left part, then those of its right part: for each its
\* argument, the index it split at and the two arguments it passed on
RECURSIVE dp_rec(_, _, _)
dp_rec(c, tol, depth) ==
    IF depth > RecursionLimit
    THEN [raised |-> TRUE, value |-> <<>>, calls |-> <<>>]
    ELSE IF Len(c) <= 2 THEN [raised |-> FALSE, value |-> c, calls |-> <<>>]
    ELSE LET m == FarthestInterior(c)
         IN  IF ExceedsTolerance(m.max_dist, tol)
             THEN LET l == left_part(c, m.max_idx)
                      r == right_part(c, m.max_idx)
                      left == dp_rec(l, tol, depth + 1)
                      right == dp_rec(r, tol, depth + 1)
                      made == <<[coords |-> c, max_idx |-> m.max_idx,
                                 left |-> l, right |-> r]>>
                              \o left.calls \o right.calls
                  IN  IF left.raised \/ right.raised
                      THEN [raised |-> TRUE, value |-> <<>>, calls |-> made]
                      ELSE [raised |-> FALSE,
                            value |-> join(left.value, right.value),
                            calls |-> made]
             ELSE [raised |-> FALSE, value |-> collapse(c), calls |-> <<>>]

douglas_peucker(c, tol) ==
    LET r == dp_rec(c, tol, 1)
    IN  IF r.raised THEN Raise ELSE Return(r.value)

\* the calls of douglas_peucker(c, tol) that split
dp_splits(c, tol) == dp_rec(c, tol, 1).calls

\* the points with their place in the list; the code reads a point
\* through point[0] and point[1] only
Tagged(c) == [i \in 1..Len(c) |-> <<c[i][1], c[i][2], i>>]

\* the places in c of the points douglas_peucker(c, tol) returns
kept_places(c, tol) ==
    LET r == douglas_peucker(Tagged(c), tol)
    IN  [i \in 1..Len(r.value) |-> r.value[i][3]]

----------------------------------------------------------------------------
(* Direct calls of douglas_peucker *)

NoOutcome == [raised |-> FALSE, value |-> <<>>]

NoResponse == [kind |-> "none"]

NoFile == [writes |-> 0, content |-> <<>>]

NotCalled == [kind |-> "none"]

\* main is not running
NoMain ==
    /\ data = <<>>
    /\ response = NoResponse
    /\ requests = 0
    /\ out_file = NoFile

\* the scraper's functions are not running
NoScraper ==
    /\ retries = 0
    /\ client = <<>>
    /\ attempt = 0
    /\ calls = 0
    /\ slept = <<>>
    /\ fetched = NotCalled
    /\ record = <<>>
    /\ abbreviated = <<>>

\* compare_records is not running
NoCompare ==
    /\ old_records = <<>>
    /\ new_records = <<>>
    /\ summary = <<>>

\* scraper.main is not running
NoRun ==
    /\ argv = {}
    /\ restaurants = <<>>
    /\ files = <<>>
    /\ evaluated = <<>>
    /\ exit_code = 0 - 1

InitDP ==
    /\ pc = "dp_start"
    /\ coords \in SeqsUpTo(Grid, MaxLen)
    /\ tolerance \in Tolerances
    /\ dp_result = NoOutcome
    /\ dp_again = NoOutcome
    /\ dp_calls = <<>>
    /\ dp_kept = <<>>
    /\ ways = <<>>
    /\ districts = <<>>
    /\ simplified_ways = <<>>
    /\ idx = 0
    /\ features = <<>>
    /\ printed = <<>>
    /\ stitched = <<>>
    /\ NoMain
    /\ NoScraper
    /\ NoCompare
    /\ NoRun

CallDP ==
    /\ pc = "dp_start"
    /\ dp_result' = douglas_peucker(coords, tolerance)
    /\ dp_calls' = dp_splits(coords, tolerance)
    /\ dp_kept' = kept_places(coords, tolerance)
    /\ pc' = IF dp_result'.raised THEN "dp_raised" ELSE "dp_once"
    /\ UNCHANGED <<coords, tolerance, dp_again, ways, districts,
                   simplified_ways, idx, features, printed, stitched>>
    /\ UNCHANGED <<mainVars, scraperVars>>
    /\ UNCHANGED <<compareVars, runVars>>

CallDPAgain ==
    /\ pc = "dp_once"
    /\ dp_again' = douglas_peucker(dp_result.value, tolerance)
    /\ pc' = IF dp_again'.raised THEN "dp_raised" ELSE "dp_twice"
    /\ UNCHANGED <<coords, tolerance, dp_result, ways, districts,
                   simplified_ways, idx, features, printed, stitched>>
    /\ UNCHANGED <<mainVars, scraperVars>>
    /\ UNCHANGED <<traceVars, compareVars, runVars>>

NextDP == CallDP \/ CallDPAgain

SpecDP == InitDP /\ [][NextDP]_vars

----------------------------------------------------------------------------
(* simplify_ways.  A lookup is a function from way ids to point lists.     *)

\* interior = douglas_peucker(coords, tolerance)[1:-1], stored as it is
simplify_one_interior_only(c, tol) ==
    LET r == douglas_peucker(c, tol)
    IN  IF r.raised THEN Raise
        ELSE Return(SubSeq(r.value, 2, Len(r.value) - 1))

\* the body of the loop, lines 166-173: the list stored for one way
simplify_one(c, tol) ==
    IF Len(c) <= 2 THEN Return(c)
    ELSE LET r == douglas_peucker(c, tol)
         IN  IF r.raised THEN Raise
             ELSE IF Len(r.value) < 2 THEN Return(<<c[1], c[Len(c)]>>)
             ELSE Return(r.value)

\* the loop of line 165, over the ids still to do
RECURSIVE simplify_loop(_, _, _, _)
simplify_loop(todo, ws, tol, simplified) ==
    IF todo = {} THEN Return(simplified)
    ELSE LET wid == CHOOSE w \in todo : \A v \in todo : w <= v
             r == simplify_one(ws[wid], tol)
         IN  IF r.raised THEN Raise
             ELSE simplify_loop(todo \ {wid}, ws, tol,
                                [simplified EXCEPT ![wid] = r.value])

simplify_ways(ws, tol) ==
    simplify_loop(DOMAIN ws, ws, tol, [w \in DOMAIN ws |-> <<>>])

----------------------------------------------------------------------------
(* merge_ways_from_ids.  Python lists are objects: a segment is            *)
(* [ref, pts, pos], where ref is the id of the way whose stored list the   *)
(* segment IS (0 for a list of its own) and pos its place in way_ids.  An  *)
(* in-place change of a list that is a stored one shows in the lookup.     *)

\* segments.append(coords): the stored list itself
list_alias(wid, c, p) == [ref |-> wid, pts |-> c, pos |-> p]

\* list(coords), line 183: a new list with the same points
list_copy(wid, c, p) == [ref |-> 0, pts |-> c, pos |-> p]

\* ways.get(wid, []), line 181
ways_get(ws, wid) == IF wid \in DOMAIN ws THEN ws[wid] ELSE <<>>

\* an id listed twice is collected once
RECURSIVE collect_segments_once(_, _, _)
collect_segments_once(way_ids, ws, p) ==
    IF p > Len(way_ids) THEN <<>>
    ELSE LET c == ways_get(ws, way_ids[p])
             seen == \E q \in 1..(p - 1) : way_ids[q] = way_ids[p]
         IN  (IF c # <<>> /\ ~seen THEN <<list_copy(way_ids[p], c, p)>> ELSE <<>>)
             \o collect_segments_once(way_ids, ws, p + 1)

\* the first id without points ends the collection
RECURSIVE collect_segments_stop(_, _, _)
collect_segments_stop(way_ids, ws, p) ==
    IF p > Len(way_ids) THEN <<>>
    ELSE LET c == ways_get(ws, way_ids[p])
         IN  IF c = <<>> THEN <<>>
             ELSE <<list_copy(way_ids[p], c, p)>>
                  \o collect_segments_stop(way_ids, ws, p + 1)

\* lines 179-183
RECURSIVE collect_segments(_, _, _)
collect_segments(way_ids, ws, p) ==
    IF p > Len(way_ids) THEN <<>>
    ELSE LET c == ways_get(ws, way_ids[p])
         IN  (IF c # <<>> THEN <<list_copy(way_ids[p], c, p)>> ELSE <<>>)
             \o collect_segments(way_ids, ws, p + 1)

\* the points of a list object, given the lookup's present content
PtsOf(seg, heap) == IF seg.ref = 0 THEN seg.pts ELSE heap[seg.ref]

\* an in-place change of the list object ref
Store(heap, ref, pts) == IF ref = 0 THEN heap ELSE [heap EXCEPT ![ref] = pts]

\* which branch of lines 197-212 takes w: 1 end-to-start, 2 end-to-end,
\* 3 start-to-end, 4 start-to-start, 0 none
match_case(current, w) ==
    IF Last(current) = w[1] THEN 1
    ELSE IF Last(current) = Last(w) THEN 2
    ELSE IF current[1] = Last(w) THEN 3
    ELSE IF current[1] = w[1] THEN 4
    ELSE 0

\* the for loop of line 196: index (1-based) of the first w taken, or 0
first_match(current, remaining, heap) ==
    LET hits == {i \in 1..Len(remaining) :
                    match_case(current, PtsOf(remaining[i], heap)) # 0}
    IN  IF hits = {} THEN 0 ELSE CHOOSE i \in hits : \A j \in hits : i <= j

RemoveAt(s, i) == SubSeq(s, 1, i - 1) \o SubSeq(s, i + 1, Len(s))

\* the end-to-end and start-to-start branches without reversed()
splice_unreversed(current, w, k) ==
    IF k = 1 THEN current \o Tail(w)
    ELSE IF k = 2 THEN current \o Tail(w)
    ELSE IF k = 3 THEN Front(w) \o current
    ELSE Front(w) \o current

\* the new point list of current after branch k took w (lines 198-213)
splice(current, w, k) ==
    IF k = 1 THEN current \o Tail(w)                 \* extend(w[1:])
    ELSE IF k = 2 THEN current \o Tail(Reverse(w))   \* extend(reversed(w)[1:])
    ELSE IF k = 3 THEN Front(w) \o current           \* w[:-1] + current
    ELSE Front(Reverse(w)) \o current                \* reversed(w)[:-1] + current

\* the while loop of lines 194-216; st = [pts, ref, remaining, heap, matches]
RECURSIVE grow(_)
grow(st) ==
    LET i == first_match(st.pts, st.remaining, st.heap)
    IN  IF i = 0 THEN st
        ELSE LET w == PtsOf(st.remaining[i], st.heap)
                 k == match_case(st.pts, w)
                 c == splice(st.pts, w, k)
                 \* extend changes the list current names; + makes a new one
                 inplace == k \in {1, 2}
             IN  grow([pts |-> c,
                       ref |-> IF inplace THEN st.ref ELSE 0,
                       remaining |-> RemoveAt(st.remaining, i),
                       heap |-> IF inplace THEN Store(st.heap, st.ref, c)
                                ELSE st.heap,
                       matches |-> Append(st.matches,
                                          [pos |-> st.remaining[i].pos,
                                           case |-> k])])

\* no closing point is appended
close_ring_never(current) == current

\* lines 218-220
close_ring(current) ==
    IF Len(current) >= 3 /\ current[1] # Last(current)
    THEN Append(current, current[1])
    ELSE current

\* len(current) >= 3
accept_ring_3(current) == Len(current) >= 3

\* line 221
accept_ring(current) == Len(current) >= 4

\* the while loop of lines 191-222; every candidate is recorded, with the
\* segment it started from and the matches spliced into it
RECURSIVE stitch(_, _, _)
stitch(remaining, heap, cands) ==
    IF remaining = <<>> THEN [candidates |-> cands, ways |-> heap]
    ELSE LET seed == Head(remaining)
             g == grow([pts |-> PtsOf(seed, heap), ref |-> seed.ref,
                        remaining |-> Tail(remaining), heap |-> heap,
                        matches |-> <<>>])
             closed == close_ring(g.pts)
             cand == [pts |-> closed, seed |-> seed.pos, matches |-> g.matches,
                      accepted |-> accept_ring(closed)]
         IN  stitch(g.remaining, Store(g.heap, g.ref, closed), Append(cands, cand))

\* every candidate is returned, whatever its length
accepted_rings_all(cands) == [i \in 1..Len(cands) |-> cands[i].pts]

RECURSIVE accepted_rings(_)
accepted_rings(cands) ==
    IF cands = <<>> THEN <<>>
    ELSE (IF Head(cands).accepted THEN <<Head(cands).pts>> ELSE <<>>)
         \o accepted_rings(Tail(cands))

\* [rings, candidates, ways]: the rings returned, every candidate of the
\* call, and the lookup as the call leaves it
merge_ways_from_ids(way_ids, ws) ==
    LET r == stitch(collect_segments(way_ids, ws, 1), ws, <<>>)
    IN  [rings |-> accepted_rings(r.candidates), candidates |-> r.candidates,
         ways |-> r.ways]

----------------------------------------------------------------------------
(* build_geojson, one district per step *)

\* "coordinates": rings, the rings not wrapped one by one
geometry_of_unwrapped(rings) ==
    IF Len(rings) = 1
    THEN [type |-> "Polygon", coordinates |-> <<rings[1]>>]
    ELSE [type |-> "MultiPolygon", coordinates |-> rings]

\* only the first ring is kept
geometry_of_first_ring(rings) ==
    [type |-> "Polygon", coordinates |-> <<rings[1]>>]

\* lines 236-242
geometry_of(rings) ==
    IF Len(rings) = 1
    THEN [type |-> "Polygon", coordinates |-> <<rings[1]>>]
    ELSE [type |-> "MultiPolygon",
          coordinates |-> [i \in 1..Len(rings) |-> <<rings[i]>>]]

\* lines 244-250
feature_of(name, rings) ==
    [type |-> "Feature", properties |-> [name |-> name],
     geometry |-> geometry_of(rings)]

\* line 233
no_rings_warning(name) == [text |-> "WARNING: no rings for", name |-> name]

\* a warning as soon as one candidate of the area was discarded
warnings_of_any_discard(name, m) ==
    IF m.rings = <<>> \/ \E i \in 1..Len(m.candidates) : ~m.candidates[i].accepted
    THEN <<no_rings_warning(name)>>
    ELSE <<>>

\* lines 232-234: what one area prints, m the result of its stitching
warnings_of(name, m) ==
    IF m.rings = <<>> THEN <<no_rings_warning(name)>> ELSE <<>>

\* lines 232-250: the features one area adds
features_of(name, m) ==
    IF m.rings = <<>> THEN <<>> ELSE <<feature_of(name, m.rings)>>

\* what the district's stitching looked up: id -> point list
LookedUp(way_ids, ws) ==
    [w \in {way_ids[p] : p \in 1..Len(way_ids)} |-> ways_get(ws, w)]

SimplifyWays ==
    /\ pc = "parsed"
    /\ LET r == simplify_ways(ways, tolerance)
       IN  IF r.raised
           THEN /\ pc' = "raised"
                /\ UNCHANGED simplified_ways
           ELSE /\ pc' = "simplified"
                /\ simplified_ways' = r.value
    /\ UNCHANGED <<coords, tolerance, dp_result, dp_again, ways, districts,
                   idx, features, printed, stitched>>
    /\ UNCHANGED <<mainVars, scraperVars>>
    /\ UNCHANGED <<traceVars, compareVars, runVars>>

BuildDistrict ==
    /\ pc = "simplified"
    /\ idx <= Len(districts)
    /\ LET d == districts[idx]
           m == merge_ways_from_ids(d.way_ids, simplified_ways)
       IN  /\ simplified_ways' = m.ways
           /\ stitched' = Append(stitched,
                  [name |-> d.name, way_ids |-> d.way_ids,
                   looked |-> LookedUp(d.way_ids, simplified_ways),
                   candidates |-> m.candidates, rings |-> m.rings])
           /\ printed' = printed \o warnings_of(d.name, m)
           /\ features' = features \o features_of(d.name, m)
    /\ idx' = idx + 1
    /\ UNCHANGED <<pc, coords, tolerance, dp_result, dp_again, ways, districts>>
    /\ UNCHANGED <<mainVars, scraperVars>>
    /\ UNCHANGED <<traceVars, compareVars, runVars>>

BuildReturn ==
    /\ pc = "simplified"
    /\ idx > Len(districts)
    /\ pc' = "built"
    /\ UNCHANGED <<coords, tolerance, dp_result, dp_again, ways, districts,
                   simplified_ways, idx, features, printed, stitched>>
    /\ UNCHANGED <<mainVars, scraperVars>>
    /\ UNCHANGED <<traceVars, compareVars, runVars>>

----------------------------------------------------------------------------
(* Inputs *)

\* the k-th distinct point of an input whose geometry is not read
PointNo(k) == <<k % 3, k \div 3>>

\* point-number strings in which each new number is the least unused one:
\* [s, k] with k the count of distinct numbers in s
RECURSIVE Canonical(_)
Canonical(n) ==
    IF n = 0 THEN {[s |-> <<>>, k |-> 0]}
    ELSE UNION {{[s |-> Append(r.s, x), k |-> IF x = r.k THEN r.k + 1 ELSE r.k]
                    : x \in 0..r.k} : r \in Canonical(n - 1)}

PointsOf(s) == [i \in 1..Len(s) |-> PointNo(s[i])]

\* the lookups <<way 1, way 2>> cut out of the point list s
Cuts(s, maxlen) ==
    {<<SubSeq(s, 1, k), SubSeq(s, k + 1, Len(s))>> :
        k \in {j \in 0..Len(s) : j <= maxlen /\ Len(s) - j <= maxlen}}

\* merge_ways_from_ids reads points only through == and !=, so its lookups
\* are taken up to a renaming of the points
StitchLookups(maxlen) ==
    UNION {UNION {Cuts(PointsOf(r.s), maxlen) : r \in Canonical(n)}
              : n \in 0..(2 * maxlen)}

\* lookups of raw ways on the grid, MaxWayPts points in all
RawLookups ==
    UNION {Cuts(s, MaxWayPts) : s \in SeqsUpTo(Grid, MaxWayPts)}

WayIds == {1, 2}

\* way 3 is a member whose geometry was not fetched
ListIds == {1, 2, 3}

Idle ==
    /\ coords = <<>>
    /\ dp_result = NoOutcome
    /\ dp_again = NoOutcome
    /\ dp_calls = <<>>
    /\ dp_kept = <<>>

\* a full run on one area that lists both ways
Init ==
    /\ pc = "parsed"
    /\ Idle
    /\ tolerance \in Tolerances
    /\ ways \in RawLookups
    /\ districts = <<[name |-> "Centro", way_ids |-> <<1, 2>>]>>
    /\ simplified_ways = <<>>
    /\ idx = 1
    /\ features = <<>>
    /\ printed = <<>>
    /\ stitched = <<>>
    /\ NoMain
    /\ NoScraper
    /\ NoCompare
    /\ NoRun

Next == SimplifyWays \/ BuildDistrict \/ BuildReturn

Spec == Init /\ [][Next]_vars

\* build_geojson called on one area and any lookup
InitBuild ==
    /\ pc = "simplified"
    /\ Idle
    /\ tolerance = 0
    /\ ways = <<>>
    /\ simplified_ways \in StitchLookups(MaxWayLen)
    /\ \E ids \in SeqsUpTo(ListIds, MaxIds) :
          districts = <<[name |-> "Centro", way_ids |-> ids]>>
    /\ idx = 1
    /\ features = <<>>
    /\ printed = <<>>
    /\ stitched = <<>>
    /\ NoMain
    /\ NoScraper
    /\ NoCompare
    /\ NoRun

NextBuild == BuildDistrict \/ BuildReturn

SpecBuild == InitBuild /\ [][NextBuild]_vars

\* build_geojson called on two areas whose lists draw on the same ways
InitShared ==
    /\ pc = "simplified"
    /\ Idle
    /\ tolerance = 0
    /\ ways = <<>>
    /\ simplified_ways \in StitchLookups(MaxEdgeLen)
    /\ \E a, b \in SeqsUpTo(WayIds, MaxRefs) \ {<<>>} :
          districts = <<[name |-> "Centro", way_ids |-> a],
                        [name |-> "Retiro", way_ids |-> b]>>
    /\ idx = 1
    /\ features = <<>>
    /\ printed = <<>>
    /\ stitched = <<>>
    /\ NoMain
    /\ NoScraper
    /\ NoCompare
    /\ NoRun

SpecShared == InitShared /\ [][NextBuild]_vars

\* build_geojson called on any area followed by one that lists both ways
InitDrop ==
    /\ pc = "simplified"
    /\ Idle
    /\ tolerance = 0
    /\ ways = <<>>
    /\ simplified_ways \in StitchLookups(MaxWayLen)
    /\ \E ids \in SeqsUpTo(WayIds, MaxIds) :
          districts = <<[name |-> "Centro", way_ids |-> ids],
                        [name |-> "Retiro", way_ids |-> <<1, 2>>]>>
    /\ idx = 1
    /\ features = <<>>
    /\ printed = <<>>
    /\ stitched = <<>>
    /\ NoMain
    /\ NoScraper
    /\ NoCompare
    /\ NoRun

SpecDrop == InitDrop /\ [][NextBuild]_vars

----------------------------------------------------------------------------
(* Closed chains.  The chain of n vertices from point number o on is       *)
(* PointNo(o), ..., PointNo(o + n - 1) and back; cutting it at the         *)
(* vertices of a set C gives one segment per cut.                          *)

ChainVertex(o, n, j) == PointNo(o + (j % n))

MinOf(S) == CHOOSE m \in S : \A x \in S : m <= x

RECURSIVE SortedSeq(_)
SortedSeq(S) ==
    IF S = {} THEN <<>> ELSE <<MinOf(S)>> \o SortedSeq(S \ {MinOf(S)})

NextCut(C, a) ==
    IF \E b \in C : b > a THEN MinOf({b \in C : b > a}) ELSE MinOf(C)

\* the segment from cut a forward to the next cut
ChainSegment(o, n, C, a) ==
    LET b == NextCut(C, a)
        steps == IF b > a THEN b - a ELSE b - a + n
    IN  [i \in 1..(steps + 1) |-> ChainVertex(o, n, a + i - 1)]

ChainSegments(o, n, C) ==
    LET cuts == SortedSeq(C)
    IN  [k \in 1..Len(cuts) |-> ChainSegment(o, n, C, cuts[k])]

Oriented(segs, flip) ==
    [k \in 1..Len(segs) |-> IF flip[k] THEN Reverse(segs[k]) ELSE segs[k]]

\* every way of storing the chain cut at C: each segment in either direction
StoredChains(o, n, C) ==
    {Oriented(ChainSegments(o, n, C), flip) :
        flip \in [1..Cardinality(C) -> BOOLEAN]}

ClosedSets(o, n) ==
    UNION {StoredChains(o, n, C) : C \in (SUBSET (0..(n - 1))) \ {{}}}

Perms(n) ==
    {s \in SeqsOfLen(1..n, n) : \A i, j \in 1..n : s[i] = s[j] => i = j}

\* one area whose ways are the n two-point edges of a closed chain
InitChain ==
    /\ pc = "simplified"
    /\ Idle
    /\ tolerance = 0
    /\ ways = <<>>
    /\ \E n \in 3..MaxChain :
          /\ simplified_ways \in StoredChains(0, n, 0..(n - 1))
          /\ \E order \in Perms(n) :
                districts = <<[name |-> "Centro", way_ids |-> order]>>
    /\ idx = 1
    /\ features = <<>>
    /\ printed = <<>>
    /\ stitched = <<>>
    /\ NoMain
    /\ NoScraper
    /\ NoCompare
    /\ NoRun

SpecChain == InitChain /\ [][NextBuild]_vars

\* one area whose ways are the segments of two closed sets with no common
\* point, listed in any order
InitEnclave ==
    /\ pc = "simplified"
    /\ Idle
    /\ tolerance = 0
    /\ ways = <<>>
    /\ \E n1, n2 \in 3..MaxEnclave :
          \E s1 \in ClosedSets(0, n1), s2 \in ClosedSets(n1, n2) :
             /\ Len(s1) + Len(s2) <= MaxSegs
             /\ simplified_ways = s1 \o s2
             /\ \E order \in Perms(Len(s1) + Len(s2)) :
                   districts = <<[name |-> "Centro", way_ids |-> order]>>
    /\ idx = 1
    /\ features = <<>>
    /\ printed = <<>>
    /\ stitched = <<>>
    /\ NoMain
    /\ NoScraper
    /\ NoCompare
    /\ NoRun

SpecEnclave == InitEnclave /\ [][NextBuild]_vars

\* a raw path of n points that moves one column to the right per point
PathShapes(n) == {[i \in 1..n |-> <<i - 1, ys[i]>>] : ys \in [1..n -> Lats]}

\* the path cut in two ways at an inner point, each stored in either
\* direction, and a third way from the path's last point back to its first
CutPaths(n) ==
    {Oriented(<<SubSeq(s, 1, k), SubSeq(s, k, n), <<s[n], s[1]>> >>, flip) :
        s \in PathShapes(n), k \in 2..(n - 1),
        flip \in {f \in [1..3 -> BOOLEAN] : ~f[3]}}

\* a full run on one area that lists the three ways of a cut path in any
\* order
InitCommute ==
    /\ pc = "parsed"
    /\ Idle
    /\ tolerance \in Tolerances
    /\ ways \in CutPaths(MaxPath)
    /\ \E order \in Perms(3) :
          districts = <<[name |-> "Centro", way_ids |-> order]>>
    /\ simplified_ways = <<>>
    /\ idx = 1
    /\ features = <<>>
    /\ printed = <<>>
    /\ stitched = <<>>
    /\ NoMain
    /\ NoScraper
    /\ NoCompare
    /\ NoRun

SpecCommute == InitCommute /\ [][Next]_vars

----------------------------------------------------------------------------
(* parse_data.  An element of the payload is a record with the keys its    *)
(* JSON object has: a key the object lacks is a field the record lacks.    *)
(* A dict is a function from its keys; the dict of no key is <<>>.         *)

\* NAME_MAP, lines 33-56, in the order of the table
NAME_MAP ==
    << [osm_name |-> "Arganzuela", app_name |-> "Arganzuela"],
       [osm_name |-> "Barajas", app_name |-> "Barajas"],
       [osm_name |-> "Carabanchel", app_name |-> "Carabanchel"],
       [osm_name |-> "Centro", app_name |-> "Centro"],
       [osm_name |-> "Chamartín", app_name |-> "Chamartín"],
       [osm_name |-> "Chamberí", app_name |-> "Chamberí"],
       [osm_name |-> "Ciudad Lineal", app_name |-> "Ciudad Lineal"],
       [osm_name |-> "Fuencarral-El Pardo", app_name |-> "Fuencarral-El Pardo"],
       [osm_name |-> "Hortaleza", app_name |-> "Hortaleza"],
       [osm_name |-> "Latina", app_name |-> "Latina"],
       [osm_name |-> "Moncloa-Aravaca", app_name |-> "Moncloa-Aravaca"],
       [osm_name |-> "Moratalaz", app_name |-> "Moratalaz"],
       [osm_name |-> "Puente de Vallecas", app_name |-> "Puente de Vallecas"],
       [osm_name |-> "Retiro", app_name |-> "Retiro"],
       [osm_name |-> "Salamanca", app_name |-> "Salamanca"],
       [osm_name |-> "San Blas-Canillejas", app_name |-> "San Blas-Canillejas"],
       [osm_name |-> "San Blas - Canillejas", app_name |-> "San Blas-Canillejas"],
       [osm_name |-> "Tetuán", app_name |-> "Tetuán"],
       [osm_name |-> "Usera", app_name |-> "Usera"],
       [osm_name |-> "Vicálvaro", app_name |-> "Vicálvaro"],
       [osm_name |-> "Villa de Vallecas", app_name |-> "Villa de Vallecas"],
       [osm_name |-> "Villaverde", app_name |-> "Villaverde"] >>

\* str.lower(), on the keys of NAME_MAP and the names the payloads use
lower(s) ==
    CASE s = "Arganzuela" -> "arganzuela"
      [] s = "Barajas" -> "barajas"
      [] s = "Carabanchel" -> "carabanchel"
      [] s = "Centro" -> "centro"
      [] s = "Chamartín" -> "chamartín"
      [] s = "Chamberí" -> "chamberí"
      [] s = "Ciudad Lineal" -> "ciudad lineal"
      [] s = "Fuencarral-El Pardo" -> "fuencarral-el pardo"
      [] s = "Hortaleza" -> "hortaleza"
      [] s = "Latina" -> "latina"
      [] s = "Moncloa-Aravaca" -> "moncloa-aravaca"
      [] s = "Moratalaz" -> "moratalaz"
      [] s = "Puente de Vallecas" -> "puente de vallecas"
      [] s = "Retiro" -> "retiro"
      [] s = "Salamanca" -> "salamanca"
      [] s = "San Blas-Canillejas" -> "san blas-canillejas"
      [] s = "San Blas - Canillejas" -> "san blas - canillejas"
      [] s = "Tetuán" -> "tetuán"
      [] s = "Usera" -> "usera"
      [] s = "Vicálvaro" -> "vicálvaro"
      [] s = "Villa de Vallecas" -> "villa de vallecas"
      [] s = "Villaverde" -> "villaverde"
      [] s = "CENTRO" -> "centro"
      [] s = "san blas - canillejas" -> "san blas - canillejas"
      [] s = "Unknown District" -> "unknown district"

\* dict.get(key, default)
get(d, key, default) == IF key \in DOMAIN d THEN d[key] ELSE default

\* no mapped name: None, which the code reads only through `not mapped_name`
NotMapped == ""

\* line 131: NAME_MAP.get(name)
NAME_MAP_get(name) ==
    LET hits == {i \in 1..Len(NAME_MAP) : NAME_MAP[i].osm_name = name}
    IN  IF hits = {} THEN NotMapped
        ELSE NAME_MAP[CHOOSE i \in hits : TRUE].app_name

\* lines 133-136: the value of the first key equal to name once both are
\* lowered
scan_lower(name) ==
    LET hits == {i \in 1..Len(NAME_MAP) :
                    lower(NAME_MAP[i].osm_name) = lower(name)}
    IN  IF hits = {} THEN NotMapped
        ELSE NAME_MAP[CHOOSE i \in hits : \A j \in hits : i <= j].app_name

\* the exact lookup alone
mapped_name_exact_only(name) == NAME_MAP_get(name)

\* lines 131-136
mapped_name(name) ==
    IF NAME_MAP_get(name) # NotMapped THEN NAME_MAP_get(name)
    ELSE scan_lower(name)

OfType(elements, t) == {i \in 1..Len(elements) : elements[i].type = t}

LastOf(S) == CHOOSE i \in S : \A j \in S : j <= i

\* lines 111-114: a later node of the same id replaces an earlier one
parse_nodes(elements) ==
    LET ids == {elements[i].id : i \in OfType(elements, "node")}
    IN  [id \in ids |->
            LET i == LastOf({j \in OfType(elements, "node") : elements[j].id = id})
            IN  <<elements[i].lon, elements[i].lat>>]

\* line 119: the points of the node ids that are nodes of the payload
way_coords(nids, nodes) ==
    LET known(nid) == nid \in DOMAIN nodes
        kept == SelectSeq(nids, known)
    IN  [i \in 1..Len(kept) |-> nodes[kept[i]]]

\* lines 116-120
parse_ways(elements, nodes) ==
    LET ids == {elements[i].id : i \in OfType(elements, "way")}
    IN  [id \in ids |->
            LET i == LastOf({j \in OfType(elements, "way") : elements[j].id = id})
            IN  way_coords(elements[i].nodes, nodes)]

\* line 144: member.get("role") in ("outer", ""); a member without the key
\* gets None, which is neither
role_is_outer(member) ==
    "role" \in DOMAIN member /\ member.role \in {"outer", ""}

\* lines 142-147
outer_members(el, ws) ==
    LET keep(m) == m.type = "way" /\ role_is_outer(m) /\ m.ref \in DOMAIN ws
        kept == SelectSeq(get(el, "members", <<>>), keep)
    IN  [i \in 1..Len(kept) |-> kept[i].ref]

skipping_line(name) == [text |-> "Skipping unmapped district:", name |-> name]

no_outer_line(name) == [text |-> "No outer ways for:", name |-> name]

\* districts.insert(0, ...)
add_district_first(ds, name, ids) == <<[name |-> name, way_ids |-> ids]>> \o ds

\* line 153
add_district(ds, name, ids) == Append(ds, [name |-> name, way_ids |-> ids])

\* the loop of lines 123-153 from element i on; acc = [districts, printed]
RECURSIVE parse_relations(_, _, _, _)
parse_relations(elements, i, ws, acc) ==
    IF i > Len(elements) THEN acc
    ELSE LET el == elements[i]
             name == get(get(el, "tags", <<>>), "name", "")
             ids == outer_members(el, ws)
             next ==
                 IF el.type # "relation" THEN acc
                 ELSE IF name = "" THEN acc
                 ELSE IF mapped_name(name) = NotMapped
                 THEN [acc EXCEPT !.printed = Append(@, skipping_line(name))]
                 ELSE IF ids = <<>>
                 THEN [acc EXCEPT !.printed = Append(@, no_outer_line(name))]
                 ELSE [acc EXCEPT !.districts =
                                     add_district(@, mapped_name(name), ids)]
         IN  parse_relations(elements, i + 1, ws, next)

\* [ways, districts, printed]: what parse_data returns and what it prints
parse_data(elements) ==
    LET nodes == parse_nodes(elements)
        ws == parse_ways(elements, nodes)
        r == parse_relations(elements, 1, ws, [districts |-> <<>>, printed |-> <<>>])
    IN  [ways |-> ws, districts |-> r.districts, printed |-> r.printed]

\* line 271
ParseData ==
    /\ pc = "fetched"
    /\ LET r == parse_data(data)
       IN  /\ ways' = r.ways
           /\ districts' = r.districts
           /\ printed' = printed \o r.printed
    /\ pc' = "parse_returned"
    /\ UNCHANGED <<coords, tolerance, dp_result, dp_again, simplified_ways,
                   idx, features, stitched, mainVars, scraperVars>>
    /\ UNCHANGED <<traceVars, compareVars, runVars>>

\* the payloads of parse_data called by itself: three nodes, two ways, one
\* of which names a node the payload lacks, and one or two relations
Node(id, pt) == [type |-> "node", id |-> id, lon |-> pt[1], lat |-> pt[2]]

Way(id, nids) == [type |-> "way", id |-> id, nodes |-> nids]

ParseGeometry ==
    << Node(1, PointNo(0)), Node(2, PointNo(1)), Node(3, PointNo(2)),
       Way(1, <<1, 2, 3>>), Way(2, <<3, 9, 1>>) >>

\* a way member of each role, one without a role, one whose way (3) was
\* not fetched, and a member that is no way
MemberOptions ==
    {[type |-> "way", ref |-> r, role |-> "outer"] : r \in ListIds}
    \cup {[type |-> "way", ref |-> 2, role |-> ""],
          [type |-> "way", ref |-> 1, role |-> "inner"],
          [type |-> "way", ref |-> 2],
          [type |-> "node", ref |-> 1, role |-> "outer"]}

TagOptions ==
    {[name |-> n] : n \in {"", "Centro", "CENTRO", "Unknown District"}}
    \cup {[boundary |-> "administrative"]}

RelationOptions(maxm) ==
    {[type |-> "relation", id |-> 10, tags |-> t, members |-> ms] :
        t \in TagOptions, ms \in SeqsUpTo(MemberOptions, maxm)}
    \cup {[type |-> "relation", id |-> 10, members |-> ms] :
            ms \in SeqsUpTo(MemberOptions, maxm)}
    \cup {[type |-> "relation", id |-> 10, tags |-> t] : t \in TagOptions}

Retiro ==
    [type |-> "relation", id |-> 11, tags |-> [name |-> "Retiro"],
     members |-> <<[type |-> "way", ref |-> 2, role |-> "outer"]>>]

ParsePayloads(maxm) ==
    UNION {{ParseGeometry \o <<r>>, ParseGeometry \o <<r, Retiro>>,
            <<Retiro, r>> \o ParseGeometry} : r \in RelationOptions(maxm)}

InitParse ==
    /\ pc = "fetched"
    /\ Idle
    /\ tolerance = 0
    /\ ways = <<>>
    /\ districts = <<>>
    /\ simplified_ways = <<>>
    /\ idx = 1
    /\ features = <<>>
    /\ printed = <<>>
    /\ stitched = <<>>
    /\ data \in ParsePayloads(MaxMembers)
    /\ response = NoResponse
    /\ requests = 0
    /\ out_file = NoFile
    /\ NoScraper
    /\ NoCompare
    /\ NoRun

NextParse == ParseData

SpecParse == InitParse /\ [][NextParse]_vars

----------------------------------------------------------------------------
(* fetch_overpass and main.  What the boundary service does with a request *)
(* is an answer: an exception raised by httpx.post, or a response with a   *)
(* status and, when its body is read, the payload's elements.              *)

\* line 105: Response.raise_for_status raises on an error status
raise_for_status_never(resp) == FALSE

raise_for_status(resp) == resp.status >= 400

\* line 274: the count below which main warns
WarnBelow == 20

\* line 275: the count the warning names
KnownTotal == 21

\* line 58, in units of 1/TolScale of the payloads' coordinate unit
TOLERANCE == 1

\* the payloads of a run of main: seven nodes, three ways (way 1 has a
\* point that simplification removes, way 3 has two points and makes no
\* ring), an unmapped relation or none, and areas relations named after
\* the keys of NAME_MAP in turn, whose members go through four patterns
MainGeometry ==
    << Node(1, <<0, 0>>), Node(2, <<1, 0>>), Node(3, <<2, 0>>),
       Node(4, <<1, 2>>), Node(5, <<0, 3>>), Node(6, <<1, 4>>),
       Node(7, <<2, 3>>),
       Way(1, <<1, 2, 3, 4>>), Way(2, <<5, 6, 7>>), Way(3, <<1, 3>>) >>

Outer(ref) == [type |-> "way", ref |-> ref, role |-> "outer"]

MemberPatterns ==
    << <<Outer(1)>>, <<Outer(1), Outer(2)>>, <<Outer(2), Outer(1)>>,
       <<Outer(3)>> >>

Area(i, shift) ==
    [type |-> "relation", id |-> 100 + i,
     tags |-> [name |-> NAME_MAP[((i - 1) % Len(NAME_MAP)) + 1].osm_name],
     members |-> MemberPatterns[((i + shift) % Len(MemberPatterns)) + 1]]

UnknownDistrict ==
    [type |-> "relation", id |-> 100, tags |-> [name |-> "Unknown District"],
     members |-> <<Outer(1)>>]

MainPayloads(maxa) ==
    {head \o [i \in 1..areas |-> Area(i, shift)] \o MainGeometry :
        head \in {<<>>, <<UnknownDistrict>>},
        areas \in 0..maxa,
        shift \in 0..(Len(MemberPatterns) - 1)}

\* what the service may do with the request
Answers(maxa) ==
    {[kind |-> "exception", exc |-> e] : e \in {"ConnectError", "ReadTimeout"}}
    \cup {[kind |-> "response", status |-> s, elements |-> <<>>] :
             s \in {429, 504}}
    \cup {[kind |-> "response", status |-> 200, elements |-> p] :
             p \in MainPayloads(maxa)}

fetching_line == [text |-> "Fetching district boundaries", name |-> ""]

parsed_line(nd, nw) == [text |-> "Parsed", name |-> <<nd, nw>>]

only_found_line(nd) == [text |-> "WARNING: Only found", name |-> <<nd, KnownTotal>>]

\* lines 97-106 and 269: one request; an exception or an error status ends
\* the run
FetchOverpass ==
    /\ pc = "main"
    /\ \E a \in Answers(MaxAreas) :
          /\ response' = a
          /\ IF a.kind = "exception" \/ raise_for_status(a)
             THEN pc' = "fetch_failed" /\ data' = data
             ELSE pc' = "fetched" /\ data' = a.elements
    /\ requests' = requests + 1
    /\ printed' = Append(printed, fetching_line)
    /\ UNCHANGED <<coords, tolerance, dp_result, dp_again, ways, districts,
                   simplified_ways, idx, features, stitched, out_file,
                   scraperVars>>
    /\ UNCHANGED <<traceVars, compareVars, runVars>>

\* lines 272-275
ReportCount ==
    /\ pc = "parse_returned"
    /\ printed' = printed
                    \o <<parsed_line(Len(districts), Cardinality(DOMAIN ways))>>
                    \o (IF Len(districts) < WarnBelow
                        THEN <<only_found_line(Len(districts))>> ELSE <<>>)
    /\ pc' = "parsed"
    /\ UNCHANGED <<coords, tolerance, dp_result, dp_again, ways, districts,
                   simplified_ways, idx, features, stitched, mainVars,
                   scraperVars>>
    /\ UNCHANGED <<traceVars, compareVars, runVars>>

RECURSIVE SumLen(_)
SumLen(lists) ==
    IF lists = <<>> THEN 0 ELSE Len(Head(lists)) + SumLen(Tail(lists))

\* lines 278 and 282: sum(len(c) for c in ways.values())
RECURSIVE total_points(_, _)
total_points(ws, todo) ==
    IF todo = {} THEN 0
    ELSE LET w == CHOOSE x \in todo : TRUE
         IN  Len(ws[w]) + total_points(ws, todo \ {w})

\* lines 255-265
RECURSIVE count_points(_)
count_points(fs) ==
    IF fs = <<>> THEN 0
    ELSE LET geom == Head(fs).geometry
             here == IF geom.type = "Polygon" THEN SumLen(geom.coordinates)
                     ELSE SumLen([i \in 1..Len(geom.coordinates) |->
                                     geom.coordinates[i][1]])
         IN  here + count_points(Tail(fs))

\* the place of an app name in the order of str: the values of NAME_MAP
\* are in that order in the table
name_rank(name) ==
    CHOOSE i \in 1..Len(NAME_MAP) :
        /\ NAME_MAP[i].app_name = name
        /\ \A j \in 1..Len(NAME_MAP) : NAME_MAP[j].app_name = name => i <= j

\* line 303: sorted(..., key=name), a stable sort
RECURSIVE sorted_names(_)
sorted_names(names) ==
    IF names = <<>> THEN <<>>
    ELSE LET i == CHOOSE k \in 1..Len(names) :
                      \A j \in 1..Len(names) :
                          \/ name_rank(names[k]) < name_rank(names[j])
                          \/ name_rank(names[k]) = name_rank(names[j]) /\ k <= j
         IN  <<names[i]>> \o sorted_names(RemoveAt(names, i))

\* lines 287-304; the percentage of line 288 is not kept, its two counts are
WriteOutput ==
    /\ pc = "built"
    /\ out_file' = [writes |-> out_file.writes + 1,
                    content |-> <<[type |-> "FeatureCollection",
                                   features |-> features]>>]
    /\ LET names == sorted_names([i \in 1..Len(features) |->
                                     features[i].properties.name])
       IN  printed' = printed
              \o <<[text |-> "Ways:",
                    name |-> <<total_points(ways, DOMAIN ways),
                               total_points(simplified_ways,
                                            DOMAIN simplified_ways)>>],
                   [text |-> "GeoJSON total:", name |-> count_points(features)],
                   [text |-> "Wrote", name |-> "districts.geojson"]>>
              \o [i \in 1..Len(names) |-> [text |-> "ok", name |-> names[i]]]
    /\ pc' = "written"
    /\ UNCHANGED <<coords, tolerance, dp_result, dp_again, ways, districts,
                   simplified_ways, idx, features, stitched, data, response,
                   requests, scraperVars>>
    /\ UNCHANGED <<traceVars, compareVars, runVars>>

\* the file as an earlier run left it
OldFile ==
    [writes |-> 0,
     content |-> <<[type |-> "FeatureCollection", features |-> <<>>]>>]

InitMain ==
    /\ pc = "main"
    /\ Idle
    /\ tolerance = TOLERANCE
    /\ ways = <<>>
    /\ districts = <<>>
    /\ simplified_ways = <<>>
    /\ idx = 1
    /\ features = <<>>
    /\ printed = <<>>
    /\ stitched = <<>>
    /\ data = <<>>
    /\ response = NoResponse
    /\ requests = 0
    /\ out_file \in {NoFile, OldFile}
    /\ NoScraper
    /\ NoCompare
    /\ NoRun

NextMain ==
    \/ FetchOverpass
    \/ ParseData
    \/ ReportCount
    \/ SimplifyWays
    \/ BuildDistrict
    \/ BuildReturn
    \/ WriteOutput

SpecMain == InitMain /\ [][NextMain]_vars

----------------------------------------------------------------------------
(* scraper._fetch_with_retry, one pass of its loop per step.  client is    *)
(* what client.get does call by call: a response with a status, or an      *)
(* exception of httpx (TimeoutException and RequestError are the ones the  *)
(* function catches; HTTPStatusError, which raise_for_status raises, is    *)
(* neither).                                                               *)

\* 2 * attempt
Pow2_times(n) == 2 * n

\* lines 142 and 150: 2 ** attempt
RECURSIVE Pow2(_)
Pow2(n) == IF n = 0 THEN 1 ELSE 2 * Pow2(n - 1)

\* attempt < retries
attempts_remain_always(att, n) == att < n

\* lines 141 and 149: attempt < retries - 1
attempts_remain(att, n) == att < n - 1

\* resp.status_code >= 400
is_server_error_from_400(status) == status >= 400

\* line 141: resp.status_code >= 500
is_server_error(status) == status >= 500

Returned(resp) == [kind |-> "returned", resp |-> resp]

Raised(exc) == [kind |-> "raised", exc |-> exc]

\* lines 142-145 and 150-153
retry_line(what, wait) == [text |-> "retrying in", name |-> <<what, wait>>]

\* lines 138-154: one pass of the loop
RetryAttempt ==
    /\ pc = "retry"
    /\ attempt < retries
    /\ calls' = calls + 1
    /\ LET r == client[calls + 1]
           again(what) ==
               /\ printed' = Append(printed, retry_line(what, Pow2(attempt)))
               /\ slept' = Append(slept, Pow2(attempt))
               /\ attempt' = attempt + 1
               /\ UNCHANGED <<pc, fetched>>
           ends(outcome) ==
               /\ fetched' = outcome
               /\ pc' = IF outcome.kind = "returned" THEN "retry_returned"
                        ELSE "retry_raised"
               /\ UNCHANGED <<printed, slept, attempt>>
       IN  IF r.kind = "response"
           THEN IF is_server_error(r.status) /\ attempts_remain(attempt, retries)
                THEN again(r.status)
                ELSE IF raise_for_status(r)
                THEN ends(Raised("HTTPStatusError"))
                ELSE ends(Returned(r))
           ELSE IF attempts_remain(attempt, retries)
                THEN again(r.exc)
                ELSE ends(Raised(r.exc))
    /\ UNCHANGED <<coords, tolerance, dp_result, dp_again, ways, districts,
                   simplified_ways, idx, features, stitched, mainVars,
                   retries, client, record, abbreviated>>
    /\ UNCHANGED <<traceVars, compareVars, runVars>>

\* line 155: the loop ended without a return or a raise
RetryUnreachable ==
    /\ pc = "retry"
    /\ attempt >= retries
    /\ fetched' = Raised("RuntimeError")
    /\ pc' = "retry_raised"
    /\ UNCHANGED <<coords, tolerance, dp_result, dp_again, ways, districts,
                   simplified_ways, idx, features, printed, stitched,
                   mainVars, retries, client, attempt, calls, slept, record,
                   abbreviated>>
    /\ UNCHANGED <<traceVars, compareVars, runVars>>

ClientOutcomes ==
    {[kind |-> "response", status |-> s] : s \in {200, 404, 500, 503}}
    \cup {[kind |-> "exception", exc |-> e] : e \in {"ReadTimeout", "ConnectError"}}

\* _fetch_with_retry(client, url, retries) on a client that has an outcome
\* for every call it can get
InitRetry ==
    /\ pc = "retry"
    /\ Idle
    /\ tolerance = 0
    /\ ways = <<>>
    /\ districts = <<>>
    /\ simplified_ways = <<>>
    /\ idx = 0
    /\ features = <<>>
    /\ printed = <<>>
    /\ stitched = <<>>
    /\ NoMain
    /\ retries \in 0..MaxRetries
    /\ client \in SeqsOfLen(ClientOutcomes, retries)
    /\ attempt = 0
    /\ calls = 0
    /\ slept = <<>>
    /\ fetched = NotCalled
    /\ record = <<>>
    /\ abbreviated = <<>>
    /\ NoCompare
    /\ NoRun

NextRetry == RetryAttempt \/ RetryUnreachable

SpecRetry == InitRetry /\ [][NextRetry]_vars

----------------------------------------------------------------------------
(* generate_data_js.abbreviate.  A record is a function from its keys to   *)
(* values; a value is a str or None.                                       *)

Str(s) == [str |-> s]

None == [none |-> TRUE]

\* KEY_MAP, lines 23-39, in the order of the table
KEY_MAP ==
    << [full |-> "name", short |-> "n"],
       [full |-> "slug", short |-> "s"],
       [full |-> "address", short |-> "a"],
       [full |-> "latitude", short |-> "lat"],
       [full |-> "longitude", short |-> "lng"],
       [full |-> "cuisine", short |-> "c"],
       [full |-> "district", short |-> "d"],
       [full |-> "rating", short |-> "r"],
       [full |-> "rating_food", short |-> "rf"],
       [full |-> "rating_decor", short |-> "rd"],
       [full |-> "rating_service", short |-> "rs"],
       [full |-> "price_eur", short |-> "p"],
       [full |-> "phone", short |-> "ph"],
       [full |-> "website", short |-> "w"],
       [full |-> "macarfi_url", short |-> "u"] >>

FullOf(short) ==
    KEY_MAP[CHOOSE i \in 1..Len(KEY_MAP) : KEY_MAP[i].short = short].full

\* line 44: {short: record.get(full, "") for full, short in KEY_MAP.items()}
abbreviate(rec) ==
    [short \in {KEY_MAP[i].short : i \in 1..Len(KEY_MAP)} |->
        get(rec, FullOf(short), Str(""))]

Abbreviate ==
    /\ pc = "abbreviate"
    /\ abbreviated' = abbreviate(record)
    /\ pc' = "abbreviated"
    /\ UNCHANGED <<coords, tolerance, dp_result, dp_again, ways, districts,
                   simplified_ways, idx, features, printed, stitched,
                   mainVars, retries, client, attempt, calls, slept, fetched,
                   record>>
    /\ UNCHANGED <<traceVars, compareVars, runVars>>

\* records in which each of the first maxf keys is missing, None,
\* empty or filled, and every other key is filled
FieldValues == {None, Str(""), Str("Demo")}

IndexOf(full) == CHOOSE i \in 1..Len(KEY_MAP) : KEY_MAP[i].full = full

FullRecords(maxf) ==
    UNION {{[full \in {KEY_MAP[i].full :
                          i \in present \cup (maxf + 1)..Len(KEY_MAP)} |->
                IF IndexOf(full) \in present THEN vals[IndexOf(full)]
                ELSE Str("Demo")]
              : vals \in [present -> FieldValues]}
             : present \in SUBSET (1..maxf)}

InitAbbreviate ==
    /\ pc = "abbreviate"
    /\ Idle
    /\ tolerance = 0
    /\ ways = <<>>
    /\ districts = <<>>
    /\ simplified_ways = <<>>
    /\ idx = 0
    /\ features = <<>>
    /\ printed = <<>>
    /\ stitched = <<>>
    /\ NoMain
    /\ retries = 0
    /\ client = <<>>
    /\ attempt = 0
    /\ calls = 0
    /\ slept = <<>>
    /\ fetched = NotCalled
    /\ record \in FullRecords(MaxFields)
    /\ abbreviated = <<>>
    /\ NoCompare
    /\ NoRun

NextAbbreviate == Abbreviate

SpecAbbreviate == InitAbbreviate /\ [][NextAbbreviate]_vars

----------------------------------------------------------------------------
(* compare_data.compare_records.  A record is a function from its keys;    *)
(* the slug is a string, every other value a str, a float or None.         *)

Float(repr) == [float |-> repr]

\* str(value)
str(v) ==
    IF "none" \in DOMAIN v THEN "None"
    ELSE IF "float" \in DOMAIN v THEN v.float
    ELSE v.str

\* COMPARE_FIELDS, lines 33-48
COMPARE_FIELDS ==
    << "name", "address", "latitude", "longitude", "cuisine", "district",
       "rating", "rating_food", "rating_decor", "rating_service", "price_eur",
       "phone", "website", "macarfi_url" >>

\* the order of str on the slugs in use
slug_rank(slug) ==
    CASE slug = "a" -> 1
      [] slug = "b" -> 2
      [] slug = "c" -> 3

\* sorted(slugs, reverse=True)
RECURSIVE sorted_slugs_descending(_)
sorted_slugs_descending(S) ==
    IF S = {} THEN <<>>
    ELSE LET hi == CHOOSE x \in S : \A y \in S : slug_rank(y) <= slug_rank(x)
         IN  <<hi>> \o sorted_slugs_descending(S \ {hi})

\* lines 108, 109 and 112: sorted(slugs)
RECURSIVE sorted_slugs(_)
sorted_slugs(S) ==
    IF S = {} THEN <<>>
    ELSE LET lo == CHOOSE x \in S : \A y \in S : slug_rank(x) <= slug_rank(y)
         IN  <<lo>> \o sorted_slugs(S \ {lo})

\* r.get("slug") is true
has_slug(r) == "slug" \in DOMAIN r /\ r.slug # ""

\* lines 102-103: {r["slug"]: r for r in records if r.get("slug")}; a later
\* record replaces an earlier one of the same slug
by_slug(records) ==
    LET with == {i \in 1..Len(records) : has_slug(records[i])}
    IN  [slug \in {records[i].slug : i \in with} |->
            records[LastOf({i \in with : records[i].slug = slug})]]

\* lines 115-119
fields_changed(old, new) ==
    LET differs(field) ==
            str(get(old, field, Str(""))) # str(get(new, field, Str("")))
    IN  SelectSeq(COMPARE_FIELDS, differs)

\* lines 111-121, slugs the sorted common slugs still to look at
RECURSIVE changed_of(_, _, _)
changed_of(slugs, old_by_slug, new_by_slug) ==
    IF slugs = <<>> THEN <<>>
    ELSE LET slug == Head(slugs)
             fields == fields_changed(old_by_slug[slug], new_by_slug[slug])
         IN  (IF fields # <<>> THEN <<[slug |-> slug, fields |-> fields]>>
              ELSE <<>>)
             \o changed_of(Tail(slugs), old_by_slug, new_by_slug)

\* lines 99-136; removed_pct is kept as the fraction [n / d] it is computed
\* from, 0 / 1 for an empty old data set
compare_records(olds, news) ==
    LET old_by_slug == by_slug(olds)
        new_by_slug == by_slug(news)
        old_slugs == DOMAIN old_by_slug
        new_slugs == DOMAIN new_by_slug
        added == sorted_slugs(new_slugs \ old_slugs)
        removed == sorted_slugs(old_slugs \ new_slugs)
        changed == changed_of(sorted_slugs(old_slugs \cap new_slugs),
                              old_by_slug, new_by_slug)
        old_count == Len(olds)
    IN  [old_count |-> old_count,
         new_count |-> Len(news),
         added_count |-> Len(added),
         removed_count |-> Len(removed),
         changed_count |-> Len(changed),
         removed_pct |-> IF old_count # 0
                         THEN [n |-> Len(removed) * 100, d |-> old_count]
                         ELSE [n |-> 0, d |-> 1],
         added |-> added,
         removed |-> removed,
         changed |-> changed]

CompareRecords ==
    /\ pc = "compare"
    /\ summary' = compare_records(old_records, new_records)
    /\ pc' = "compared"
    /\ UNCHANGED <<coords, tolerance, dp_result, dp_again, ways, districts,
                   simplified_ways, idx, features, printed, stitched,
                   mainVars, scraperVars, traceVars, old_records,
                   new_records, runVars>>

\* the records of the data sets: two of slug "a" that differ in the name
\* and agree in the rating as strings, three of slug "b" whose names are
\* None, "None" and missing, one with an empty slug and one without a slug
RecordOptions ==
    { [slug |-> "a", name |-> Str("A"), rating |-> Str("8.0")],
      [slug |-> "a", name |-> Str("A updated"), rating |-> Float("8.0")],
      [slug |-> "b", name |-> None],
      [slug |-> "b", name |-> Str("None")],
      [slug |-> "b"],
      [slug |-> "", name |-> Str("A")],
      [name |-> Str("A")] }

DataSets(maxr) == SeqsUpTo(RecordOptions, maxr)

InitCompare ==
    /\ pc = "compare"
    /\ Idle
    /\ tolerance = 0
    /\ ways = <<>>
    /\ districts = <<>>
    /\ simplified_ways = <<>>
    /\ idx = 0
    /\ features = <<>>
    /\ printed = <<>>
    /\ stitched = <<>>
    /\ NoMain
    /\ NoScraper
    /\ old_records \in DataSets(MaxRecords)
    /\ new_records \in DataSets(MaxRecords)
    /\ summary = <<>>
    /\ NoRun

NextCompare == CompareRecords

SpecCompare == InitCompare /\ [][NextCompare]_vars

----------------------------------------------------------------------------
(* scraper.main from the export on (line 583), with validate_data and      *)
(* strict_coverage_errors.  The restaurants are held as the number of      *)
(* records of each kind, a function from the distinct records to their     *)
(* counts: the code past line 582 reads the list only through len, through *)
(* counts of records with a field and through the exports.  The fractions   *)
(* 0.90, 0.95 and 0.80 are compared in hundredths.                          *)

\* line 336
MIN_RESTAURANTS == 700

\* line 337, in hundredths
MIN_CUISINE_PCT == 90

\* line 338, in hundredths
STRICT_MIN_FIELD_PCT == 80

\* sum(1 for r in restaurants if ...), for the records that are in `kinds`
RECURSIVE count_of(_, _)
count_of(rs, kinds) ==
    IF kinds = {} THEN 0
    ELSE LET r == CHOOSE x \in kinds : TRUE
         IN  rs[r] + count_of(rs, kinds \ {r})

\* len(restaurants)
total_of(rs) == count_of(rs, DOMAIN rs)

\* bool(r.get(field))
has_field(r, field) == field \in DOMAIN r /\ r[field] # ""

\* sum(1 for r in restaurants if r.get(field))
with_field(rs, field) ==
    count_of(rs, {r \in DOMAIN rs : has_field(r, field)})

\* lines 374 and 421: bool(r.get("rating")) and r.get("rating") != "-"
has_rating(r) == has_field(r, "rating") /\ r["rating"] # "-"

\* lines 341-361; an error is the numbers its message is formatted from
validate_data(rs) ==
    LET total == total_of(rs)
        with_cuisine == with_field(rs, "cuisine")
        with_coords == with_field(rs, "latitude")
    IN  (IF total < MIN_RESTAURANTS
         THEN << <<"Only restaurants", total, MIN_RESTAURANTS>> >> ELSE <<>>)
        \o (IF total > 0 /\ with_cuisine * 100 < MIN_CUISINE_PCT * total
            THEN << <<"Only have cuisine data", with_cuisine, total>> >>
            ELSE <<>>)
        \o (IF total > 0 /\ with_coords * 100 < total * 95
            THEN << <<"Only have coordinates", with_coords, total>> >>
            ELSE <<>>)

\* lines 371-379, the fields in their order
strict_fields ==
    << "cuisine", "district", "rating", "rating_food", "rating_decor",
       "rating_service", "price_eur" >>

\* lines 380-387
RECURSIVE strict_errors_of(_, _, _)
strict_errors_of(rs, total, fields) ==
    IF fields = <<>> THEN <<>>
    ELSE LET field_name == Head(fields)
             count == IF field_name = "rating"
                      THEN count_of(rs, {r \in DOMAIN rs : has_rating(r)})
                      ELSE with_field(rs, field_name)
         IN  (IF count * 100 < STRICT_MIN_FIELD_PCT * total
              THEN << <<field_name, "coverage below", count, total>> >>
              ELSE <<>>)
             \o strict_errors_of(rs, total, Tail(fields))

\* lines 364-389
strict_coverage_errors(rs) ==
    LET total == total_of(rs)
    IN  IF total = 0
        THEN << <<"No restaurants found for strict validation">> >>
        ELSE strict_errors_of(rs, total, strict_fields)

\* lines 266-281: csv column, record key
csv_columns ==
    << <<"Name", "name">>, <<"Address", "address">>,
       <<"Latitude", "latitude">>, <<"Longitude", "longitude">>,
       <<"Cuisine", "cuisine">>, <<"District", "district">>,
       <<"Rating", "rating">>, <<"Rating (Food)", "rating_food">>,
       <<"Rating (Decor)", "rating_decor">>,
       <<"Rating (Service)", "rating_service">>,
       <<"Price (EUR)", "price_eur">>, <<"Phone", "phone">>,
       <<"Website", "website">>, <<"Macarfi URL", "macarfi_url">> >>

\* lines 287-302: the row written for a record
csv_row(r) ==
    [i \in 1..Len(csv_columns) |-> get(r, csv_columns[i][2], "")]

\* lines 257-304: the header and the number of rows of each content
csv_text(rs) ==
    [header |-> [i \in 1..Len(csv_columns) |-> csv_columns[i][1]],
     rows |-> [row \in {csv_row(r) : r \in DOMAIN rs} |->
                  count_of(rs, {r \in DOMAIN rs : csv_row(r) = row})]]

\* lines 309-312: the entry written for a record; no key in use starts
\* with "_"
json_entry(r) == r

\* lines 307-317
json_text(rs) ==
    [entries |-> [e \in {json_entry(r) : r \in DOMAIN rs} |->
                     count_of(rs, {r \in DOMAIN rs : json_entry(r) = e})]]

\* lines 413-428, the fields in their order
report_fields ==
    << "slug", "name", "address", "latitude", "longitude", "cuisine",
       "district", "rating", "rating_food", "rating_decor", "rating_service",
       "price_eur", "phone", "website" >>

\* lines 410-440, without generated_at and with pct as the fraction it is
\* rounded from
build_quality_report(rs) ==
    LET total == total_of(rs)
        count(f) == IF f = "rating"
                    THEN count_of(rs, {r \in DOMAIN rs : has_rating(r)})
                    ELSE with_field(rs, f)
    IN  [total |-> total,
         fields |-> [i \in 1..Len(report_fields) |->
                        [field |-> report_fields[i],
                         count |-> count(report_fields[i]),
                         pct |-> IF total # 0
                                 THEN <<count(report_fields[i]), total>>
                                 ELSE <<0, 1>>]]]

\* open(path, "w") and the write: the file holds the text
write_file(fs, path, text) ==
    [p \in DOMAIN fs \cup {path} |-> IF p = path THEN text ELSE fs[p]]

csv_path == "madrid_restaurants.csv"

json_path == "madrid_restaurants.json"

quality_report_path == "quality_report.json"

\* an export whose open raises OSError leaves the traceback and status 1
Crash ==
    /\ pc' = "exited"
    /\ exit_code' = 1
    /\ printed' = Append(printed, <<"Traceback">>)
    /\ UNCHANGED <<files, evaluated>>

\* lines 583-585
ExportCsv ==
    /\ pc = "export_csv"
    /\ \E ok \in BOOLEAN :
          IF ok
          THEN /\ files' = write_file(files, csv_path, csv_text(restaurants))
               /\ printed' = Append(printed, <<"Google Maps CSV saved to:", csv_path>>)
               /\ pc' = "export_json"
               /\ UNCHANGED <<evaluated, exit_code>>
          ELSE Crash
    /\ UNCHANGED <<coords, tolerance, dp_result, dp_again, ways, districts,
                   simplified_ways, idx, features, stitched, mainVars,
                   scraperVars, traceVars, compareVars, argv, restaurants>>

\* lines 587-588
ExportJson ==
    /\ pc = "export_json"
    /\ \E ok \in BOOLEAN :
          IF ok
          THEN /\ files' = write_file(files, json_path, json_text(restaurants))
               /\ printed' = Append(printed, <<"Full JSON data saved to:", json_path>>)
               /\ pc' = "quality_report"
               /\ UNCHANGED <<evaluated, exit_code>>
          ELSE Crash
    /\ UNCHANGED <<coords, tolerance, dp_result, dp_again, ways, districts,
                   simplified_ways, idx, features, stitched, mainVars,
                   scraperVars, traceVars, compareVars, argv, restaurants>>

\* the quality report is left unwritten
ExportQualityReport_skipped ==
    /\ pc = "quality_report"
    /\ pc' = "report"
    /\ UNCHANGED <<coords, tolerance, dp_result, dp_again, ways, districts,
                   simplified_ways, idx, features, printed, stitched,
                   mainVars, scraperVars, traceVars, compareVars, runVars>>

\* lines 590-592
ExportQualityReport ==
    /\ pc = "quality_report"
    /\ \E ok \in BOOLEAN :
          IF ok
          THEN /\ files' = write_file(files, quality_report_path,
                                      build_quality_report(restaurants))
               /\ printed' = Append(printed, <<"Quality report saved to:", quality_report_path>>)
               /\ pc' = "report"
               /\ UNCHANGED <<evaluated, exit_code>>
          ELSE Crash
    /\ UNCHANGED <<coords, tolerance, dp_result, dp_again, ways, districts,
                   simplified_ways, idx, features, stitched, mainVars,
                   scraperVars, traceVars, compareVars, argv, restaurants>>

\* lines 594-634: the compare report, if asked for, with or without the
\* baseline loaded at the start of main, and the statistics
PrintReport ==
    /\ pc = "report"
    /\ \E baseline \in BOOLEAN :
          printed' = printed
              \o (IF "--compare" \in argv
                  THEN IF baseline
                       THEN << <<"COMPARE REPORT">> >>
                       ELSE << <<"Compare requested but no valid baseline was available.">> >>
                  ELSE <<>>)
              \o << <<"SCRAPING COMPLETE">>,
                    <<"Total restaurants:", total_of(restaurants)>> >>
    /\ pc' = "validate"
    /\ UNCHANGED <<coords, tolerance, dp_result, dp_again, ways, districts,
                   simplified_ways, idx, features, stitched, mainVars,
                   scraperVars, traceVars, compareVars, runVars>>

\* lines 636-643
ValidateData ==
    /\ pc = "validate"
    /\ evaluated' = Append(evaluated, "validate_data")
    /\ LET errors == validate_data(restaurants)
       IN  IF errors # <<>>
           THEN /\ printed' = printed \o << <<"VALIDATION FAILED:">> >> \o errors
                /\ exit_code' = 1
                /\ pc' = "exited"
           ELSE /\ printed' = Append(printed, <<"Validation passed.">>)
                /\ exit_code' = exit_code
                /\ pc' = "strict"
    /\ UNCHANGED <<coords, tolerance, dp_result, dp_again, ways, districts,
                   simplified_ways, idx, features, stitched, mainVars,
                   scraperVars, traceVars, compareVars, argv, restaurants,
                   files>>

\* lines 645-652
StrictValidation ==
    /\ pc = "strict"
    /\ "--strict" \in argv
    /\ evaluated' = Append(evaluated, "strict_coverage_errors")
    /\ LET strict_errors == strict_coverage_errors(restaurants)
       IN  IF strict_errors # <<>>
           THEN /\ printed' = printed \o << <<"STRICT VALIDATION FAILED:">> >>
                                  \o strict_errors
                /\ exit_code' = 1
           ELSE /\ printed' = Append(printed, <<"Strict validation passed.">>)
                /\ exit_code' = 0
    /\ pc' = "exited"
    /\ UNCHANGED <<coords, tolerance, dp_result, dp_again, ways, districts,
                   simplified_ways, idx, features, stitched, mainVars,
                   scraperVars, traceVars, compareVars, argv, restaurants,
                   files>>

\* line 645 without --strict: main returns
ReturnFromMain ==
    /\ pc = "strict"
    /\ "--strict" \notin argv
    /\ exit_code' = 0
    /\ pc' = "exited"
    /\ UNCHANGED <<coords, tolerance, dp_result, dp_again, ways, districts,
                   simplified_ways, idx, features, printed, stitched,
                   mainVars, scraperVars, traceVars, compareVars, argv,
                   restaurants, files, evaluated>>

\* the kinds of record of the data sets: one with every field, one with an
\* empty cuisine, one without coordinates, one with the rating "-"
Complete ==
    [slug |-> "a", name |-> "A", address |-> "Calle 1", latitude |-> "40.4",
     longitude |-> "-3.7", cuisine |-> "Tapas", district |-> "Centro",
     rating |-> "8.0", rating_food |-> "8.0", rating_decor |-> "8.0",
     rating_service |-> "8.0", price_eur |-> "50"]

NoCuisine == [Complete EXCEPT !.cuisine = ""]

NoCoordinates ==
    [k \in DOMAIN Complete \ {"latitude", "longitude"} |-> Complete[k]]

DashRating == [Complete EXCEPT !.rating = "-"]

\* the most records of `total` that may lack a field wanted in pct
\* hundredths of them
MayLack(total, pct) == total - ((total * pct + 99) \div 100)

\* none, the most that pass, and one more
LackOptions(total, pct) ==
    {0, MayLack(total, pct), MayLack(total, pct) + 1}

\* a data set of `total` records, so many of them of each lacking kind
Restaurants(total, no_cuisine, no_coords, dash) ==
    LET counts == [r \in {Complete, NoCuisine, NoCoordinates, DashRating} |->
                      CASE r = NoCuisine -> no_cuisine
                        [] r = NoCoordinates -> no_coords
                        [] r = DashRating -> dash
                        [] OTHER -> total - no_cuisine - no_coords - dash]
    IN  [r \in {x \in DOMAIN counts : counts[x] > 0} |-> counts[r]]

\* no record, one record too few, and enough records
RestaurantSets(least) ==
    UNION {IF total = 0 THEN {Restaurants(0, 0, 0, 0)}
           ELSE {Restaurants(total, q[1], q[2], q[3]) :
                    q \in LackOptions(total, MIN_CUISINE_PCT)
                          \X LackOptions(total, 95)
                          \X LackOptions(total, STRICT_MIN_FIELD_PCT)} :
           total \in {0, least - 1, least}}

\* the output files of an earlier run, or none
FilesBefore ==
    {<<>>,
     [p \in {csv_path, json_path, quality_report_path} |->
        CASE p = csv_path -> csv_text(Restaurants(MIN_RESTAURANTS, 0, 0, 0))
          [] p = json_path -> json_text(Restaurants(MIN_RESTAURANTS, 0, 0, 0))
          [] OTHER -> build_quality_report(Restaurants(MIN_RESTAURANTS, 0, 0, 0))]}

InitRun ==
    /\ pc = "export_csv"
    /\ Idle
    /\ tolerance = 0
    /\ ways = <<>>
    /\ districts = <<>>
    /\ simplified_ways = <<>>
    /\ idx = 0
    /\ features = <<>>
    /\ printed = <<>>
    /\ stitched = <<>>
    /\ NoMain
    /\ NoScraper
    /\ NoCompare
    /\ argv \in SUBSET {"--strict", "--compare"}
    /\ restaurants \in RestaurantSets(MIN_RESTAURANTS)
    /\ files \in FilesBefore
    /\ evaluated = <<>>
    /\ exit_code = 0 - 1

NextRun ==
    \/ ExportCsv
    \/ ExportJson
    \/ ExportQualityReport
    \/ PrintReport
    \/ ValidateData
    \/ StrictValidation
    \/ ReturnFromMain

SpecRun == InitRun /\ [][NextRun]_vars

----------------------------------------------------------------------------
(* Claims *)

PointSet(pts) == {pts[i] : i \in 1..Len(pts)}

KeepsEndpoints ==
    /\ Len(dp_result.value) >= 2
    /\ dp_result.value[1] = coords[1]
    /\ Last(dp_result.value) = Last(coords)

C2_SameLookups ==
    \A i, j \in 1..Len(stitched) :
        \A S \in DOMAIN stitched[i].looked \cap DOMAIN stitched[j].looked :
            stitched[i].looked[S] = stitched[j].looked[S]

\* C2: shared-edge consistency.  No step of build_geojson changes the
\* simplified-ways mapping or a point list stored in it, and whenever two
\* processed districts list the same way id, both looked up the same point
\* list for it, in whichever order the districts came.
C2_SharedEdge ==
    /\ [][simplified_ways' = simplified_ways]_vars
    /\ []C2_SameLookups

\* two districts share the way the first one started its ring from, and
\* the first one spliced another way onto it
C2_Witness ==
    /\ Len(stitched) = 2
    /\ stitched[1].candidates # <<>>
    /\ stitched[1].candidates[1].matches # <<>>
    /\ stitched[1].candidates[1].matches[1].case \in {1, 2}
    /\ stitched[1].way_ids[stitched[1].candidates[1].seed]
           \in DOMAIN stitched[2].looked
    /\ stitched[2].rings # <<>>

ClosedRing(r) == Len(r) >= 4 /\ r[1] = r[Len(r)]

FeatureRings(f) ==
    IF f.geometry.type = "Polygon"
    THEN {f.geometry.coordinates[i] : i \in 1..Len(f.geometry.coordinates)}
    ELSE UNION {{f.geometry.coordinates[i][j]
                    : j \in 1..Len(f.geometry.coordinates[i])}
                  : i \in 1..Len(f.geometry.coordinates)}

\* C3: ring closure.  Every ring merge_ways_from_ids returns, and every
\* ring in an emitted feature, has its first point equal to its last and
\* at least 4 points.
C3_RingClosure ==
    /\ \A k \in 1..Len(stitched) :
          \A i \in 1..Len(stitched[k].rings) : ClosedRing(stitched[k].rings[i])
    /\ \A k \in 1..Len(features) :
          \A r \in FeatureRings(features[k]) : ClosedRing(r)

\* a ring stitched from two ways whose ends did not meet: it was closed by
\* appending its first point
C3_Witness ==
    /\ Len(stitched) = 1
    /\ Len(features) = 1
    /\ \E i \in 1..Len(stitched[1].candidates) :
          LET c == stitched[1].candidates[i]
          IN  /\ c.accepted
              /\ c.matches # <<>>
              /\ c.pts[Len(c.pts) - 1] # c.pts[1]
              /\ Cardinality(PointSet(c.pts)) = Len(c.pts) - 1

\* C4: idempotent re-simplification.  When douglas_peucker returns r on
\* (s, t), douglas_peucker(r, t) returns r as well.
C4_Idempotent ==
    /\ pc = "dp_twice" => dp_again.value = dp_result.value
    /\ pc = "dp_raised" => dp_result.raised

\* the second call ran on a result that had kept an interior point and
\* lost another
C4_Witness ==
    /\ pc = "dp_twice"
    /\ Len(dp_result.value) >= 3
    /\ Len(dp_result.value) < Len(coords)

Forwards(ring, n) ==
    \E k \in 0..(n - 1) :
        \A i \in 1..(n + 1) : ring[i] = ChainVertex(0, n, k + i - 1)

Backwards(ring, n) ==
    \E k \in 0..(n - 1) :
        \A i \in 1..(n + 1) : ring[i] = ChainVertex(0, n, k + 2 * n - (i - 1))

NoneReversed(ws) == \A w \in 1..Len(ws) : ws[w][1] = ChainVertex(0, Len(ws), w - 1)

\* C5: simple closed chain.  The n >= 3 two-point edges of a closed chain
\* of distinct vertices, listed in any order and stored in any direction,
\* stitch to exactly one ring of n + 1 points, closed, that goes through
\* the chain's vertices in cyclic order from some vertex on (in one of the
\* two directions; forwards when no edge is stored reversed).
C5_ClosedChain ==
    Len(stitched) = 1 =>
        LET n == Len(simplified_ways)
            rings == stitched[1].rings
        IN  /\ Len(rings) = 1
            /\ Len(rings[1]) = n + 1
            /\ rings[1][1] = rings[1][n + 1]
            /\ Forwards(rings[1], n) \/ Backwards(rings[1], n)
            /\ NoneReversed(simplified_ways) => Forwards(rings[1], n)

\* a square whose edges are listed out of order, some stored reversed, and
\* whose ring came out backwards
C5_Witness ==
    /\ pc = "built"
    /\ Len(simplified_ways) = 4
    /\ districts[1].way_ids[2] = 4
    /\ ~NoneReversed(simplified_ways)
    /\ Backwards(stitched[1].rings[1], 4)
    /\ \E i \in 1..3 : stitched[1].candidates[1].matches[i].case = 4

LookupPoints == UNION {PointSet(simplified_ways[w]) : w \in DOMAIN simplified_ways}

\* C6: disjoint enclave.  An area whose list refers to the segments of two
\* closed sets with no common point, in any order, is emitted as one
\* MultiPolygon feature of exactly two parts, each a single closed ring
\* over the points of one of the two sets.
C6_DisjointEnclave ==
    Len(stitched) = 1 =>
        /\ Len(features) = 1
        /\ printed = <<>>
        /\ features[1].geometry.type = "MultiPolygon"
        /\ LET parts == features[1].geometry.coordinates
           IN  /\ Len(parts) = 2
               /\ \A i \in 1..2 : Len(parts[i]) = 1 /\ ClosedRing(parts[i][1])
               /\ PointSet(parts[1][1]) \cap PointSet(parts[2][1]) = {}
               /\ PointSet(parts[1][1]) \cup PointSet(parts[2][1]) = LookupPoints

\* the list names a segment of the second set between two of the first,
\* and the first ring skipped over it
C6_Witness ==
    /\ pc = "built"
    /\ Len(districts[1].way_ids) = 3
    /\ stitched[1].candidates[1].seed = 1
    /\ stitched[1].candidates[1].matches # <<>>
    /\ stitched[1].candidates[1].matches[1].pos = 3
    /\ features[1].geometry.type = "MultiPolygon"

WithRings(k) == Cardinality({j \in 1..k : stitched[j].rings # <<>>})

\* C7: assembler classification.  For each area given to build_geojson:
\* no ring means no feature and one warning line naming it; one ring means
\* one Polygon feature with coordinates [ring]; k >= 2 rings mean one
\* MultiPolygon feature with coordinates [[ring_1], ..., [ring_k]]; every
\* area gives exactly one feature or one warning.
C7_Classification ==
    /\ Len(features) = WithRings(Len(stitched))
    /\ Len(printed) = Len(stitched) - WithRings(Len(stitched))
    /\ \A k \in 1..Len(stitched) :
          LET r == stitched[k].rings
              f == features[WithRings(k)]
          IN  /\ r = <<>> =>
                    printed[k - WithRings(k)] =
                        [text |-> "WARNING: no rings for", name |-> stitched[k].name]
              /\ Len(r) = 1 =>
                    /\ f.type = "Feature"
                    /\ f.properties.name = stitched[k].name
                    /\ f.geometry.type = "Polygon"
                    /\ f.geometry.coordinates = <<r[1]>>
              /\ Len(r) >= 2 =>
                    /\ f.type = "Feature"
                    /\ f.properties.name = stitched[k].name
                    /\ f.geometry.type = "MultiPolygon"
                    /\ Len(f.geometry.coordinates) = Len(r)
                    /\ \A i \in 1..Len(r) : f.geometry.coordinates[i] = <<r[i]>>

\* an area of two rings was emitted
C7_Witness ==
    /\ pc = "built"
    /\ Len(features) = 1
    /\ Len(stitched[1].rings) = 2
    /\ features[1].geometry.type = "MultiPolygon"

\* C8 as stated: every point list in the result of simplify_ways has at
\* least 2 points, whatever the length of the raw lists.
C8_AtLeastTwoPoints ==
    pc \in {"simplified", "built"} =>
        \A w \in DOMAIN simplified_ways : Len(simplified_ways[w]) >= 2

\* C8, amended: a raw list of at least 2 points is stored with at least 2
\* points, its first and last among them; a raw list of fewer than 2
\* points is stored unchanged.
C8_ShortWaysPassThrough ==
    pc \in {"simplified", "built"} =>
        \A w \in DOMAIN ways :
            /\ Len(ways[w]) >= 2 =>
                  /\ Len(simplified_ways[w]) >= 2
                  /\ simplified_ways[w][1] = ways[w][1]
                  /\ Last(simplified_ways[w]) = Last(ways[w])
            /\ Len(ways[w]) < 2 => simplified_ways[w] = ways[w]

\* one way lost its interior point, the other has no point at all
C8_Witness ==
    /\ pc = "simplified"
    /\ \E w, v \in DOMAIN ways :
          /\ Len(ways[w]) = 3
          /\ Len(simplified_ways[w]) = 2
          /\ simplified_ways[v] = <<>>

\* C9 as stated: every ring the stitcher returns holds at least 3 distinct
\* points.
C9_ThreeDistinctPoints ==
    \A k \in 1..Len(stitched) :
        \A i \in 1..Len(stitched[k].rings) :
            Cardinality(PointSet(stitched[k].rings[i])) >= 3

RECURSIVE AtLeast4(_)
AtLeast4(cands) ==
    IF cands = <<>> THEN <<>>
    ELSE (IF Len(Head(cands).pts) >= 4 THEN <<Head(cands).pts>> ELSE <<>>)
         \o AtLeast4(Tail(cands))

\* C9, amended: the rings returned are, in order, exactly the candidates
\* that hold at least 4 points once closed, the closing point counted; the
\* points are not required to be distinct.
C9_FourPointsCounted ==
    \A k \in 1..Len(stitched) : stitched[k].rings = AtLeast4(stitched[k].candidates)

\* a ring of 4 points, only 2 of them distinct, was returned next to a
\* candidate that was not
C9_Witness ==
    /\ Len(stitched) = 1
    /\ Len(stitched[1].rings) = 1
    /\ Len(stitched[1].rings[1]) = 4
    /\ Cardinality(PointSet(stitched[1].rings[1])) = 2
    /\ Len(stitched[1].candidates) = 2

Discards(k) ==
    \E i \in 1..Len(stitched[k].candidates) : ~stitched[k].candidates[i].accepted

Warned(k) ==
    \E i \in 1..Len(printed) : printed[i].name = stitched[k].name

HasFeature(name) ==
    \E i \in 1..Len(features) : features[i].properties.name = name

RingsOfArea(name) ==
    UNION {FeatureRings(features[i]) :
              i \in {j \in 1..Len(features) : features[j].properties.name = name}}

Kept(k) ==
    {stitched[k].candidates[i].pts :
        i \in {j \in 1..Len(stitched[k].candidates) :
                   stitched[k].candidates[j].accepted}}

\* C11 as stated: an area one of whose candidates has fewer than 4 points
\* after stitching and closure gets no feature.
C11_AreaDroppedOnDegenerate ==
    \A k \in 1..Len(stitched) : Discards(k) => ~HasFeature(stitched[k].name)

\* C11, amended: degenerate ring handling.  A candidate of fewer than 4
\* points is left out of its area's rings; the area gets no feature exactly
\* when none of its candidates has 4 points, and otherwise its feature
\* holds the candidates that have; the areas after it are processed all the
\* same.
C11_DegenerateCandidateDropped ==
    /\ \A k \in 1..Len(stitched) :
          /\ HasFeature(stitched[k].name) <=> Kept(k) # {}
          /\ RingsOfArea(stitched[k].name) = Kept(k)
    /\ Len(stitched) = idx - 1
    /\ pc = "built" => Len(stitched) = Len(districts)

\* the first area had only a degenerate candidate and was dropped; the
\* second discarded one as well and was emitted with its ring
C11_Witness ==
    /\ pc = "built"
    /\ Discards(1)
    /\ ~HasFeature(stitched[1].name)
    /\ Discards(2)
    /\ HasFeature(stitched[2].name)

RECURSIVE IsSubsequence(_, _)
IsSubsequence(s, t) ==
    IF s = <<>> THEN TRUE
    ELSE IF t = <<>> THEN FALSE
    ELSE IF Head(s) = Head(t) THEN IsSubsequence(Tail(s), Tail(t))
    ELSE IsSubsequence(s, Tail(t))

\* C17: for any input and any tolerance > 0, douglas_peucker returns an
\* order-preserving subsequence of its input: no new point, no point out of
\* order, and so no more points than the input has.
C17_Subsequence ==
    (pc # "dp_start" /\ tolerance > 0) =>
        /\ ~dp_result.raised
        /\ IsSubsequence(dp_result.value, coords)
        /\ Len(dp_result.value) <= Len(coords)

\* of two different interior points the first was removed and the second
\* kept
C17_Witness ==
    /\ pc = "dp_once"
    /\ tolerance > 0
    /\ Len(coords) = 4
    /\ coords[2] # coords[3]
    /\ dp_result.value = <<coords[1], coords[3], coords[4]>>

\* d <= tolerance, d a squared distance, tolerance = tol/TolScale
WithinTolerance(d, tol) ==
    tol >= 0 /\ d.n * Sq(TolScale) <= Sq(tol) * d.d

InteriorWithin(c, tol) ==
    \A i \in 2..(Len(c) - 1) :
        WithinTolerance(perpendicular_distance(c[i], c[1], c[Len(c)]), tol)

\* C18: collapse rule.  An input of at least 3 points whose interior points
\* all lie within the tolerance of the segment from its first point to its
\* last is returned as exactly [first, last]; an input of at most 2 points
\* is returned unchanged.
C18_CollapseRule ==
    pc # "dp_start" =>
        /\ Len(coords) <= 2 => dp_result = Return(coords)
        /\ (Len(coords) >= 3 /\ InteriorWithin(coords, tolerance)) =>
              dp_result = Return(<<coords[1], Last(coords)>>)

\* an interior point off the segment, at exactly the tolerance, was removed
C18_Witness ==
    /\ pc = "dp_once"
    /\ Len(coords) >= 3
    /\ tolerance > 0
    /\ \E i \in 2..(Len(coords) - 1) :
          LET d == perpendicular_distance(coords[i], coords[1], Last(coords))
          IN  d.n * Sq(TolScale) = Sq(tolerance) * d.d
    /\ InteriorWithin(coords, tolerance)
    /\ dp_result.value = <<coords[1], Last(coords)>>

RelName(el) == get(get(el, "tags", <<>>), "name", "")

IsNamedRelation(el) == el.type = "relation" /\ RelName(el) # ""

ExactKeys(name) == {i \in 1..Len(NAME_MAP) : NAME_MAP[i].osm_name = name}

CaseKeys(name) ==
    {i \in 1..Len(NAME_MAP) : lower(NAME_MAP[i].osm_name) = lower(name)}

\* the two tiers as the claim words them
TwoTier(name) ==
    IF ExactKeys(name) # {} THEN NAME_MAP[MinOf(ExactKeys(name))].app_name
    ELSE IF CaseKeys(name) # {} THEN NAME_MAP[MinOf(CaseKeys(name))].app_name
    ELSE NotMapped

Unmapped(el) == IsNamedRelation(el) /\ TwoTier(RelName(el)) = NotMapped

\* the relations that made a district: mapped, with an outer way
MakesArea(el) ==
    /\ IsNamedRelation(el)
    /\ TwoTier(RelName(el)) # NotMapped
    /\ outer_members(el, ways) # <<>>

IsSkipLine(line) == line.text = "Skipping unmapped district:"

\* C12: the name lookup of parse_data has two tiers.  A relation name that
\* is a key of the alias table maps to that key's value; otherwise a name
\* equal to a key ignoring case maps to the value of the first such key; a
\* non-empty name that matches neither makes no district, is left out of
\* the count, and gets a 'Skipping unmapped district' line; the relations
\* after it are parsed all the same.
C12_TwoTierLookup ==
    pc = "parse_returned" =>
        LET made == SelectSeq(data, MakesArea)
            skipped == SelectSeq(data, Unmapped)
        IN  /\ [i \in 1..Len(districts) |-> districts[i].name]
                  = [i \in 1..Len(made) |-> TwoTier(RelName(made[i]))]
            /\ SelectSeq(printed, IsSkipLine)
                  = [i \in 1..Len(skipped) |-> skipping_line(RelName(skipped[i]))]

\* a name that is no key but equals one ignoring case made a district, and
\* the relation after it made one too
C12_Witness ==
    /\ pc = "parse_returned"
    /\ \E i \in 1..Len(data) :
          /\ IsNamedRelation(data[i])
          /\ RelName(data[i]) = "CENTRO"
          /\ i < Len(data)
    /\ Len(districts) = 2
    /\ districts[1].name = "Centro"
    /\ districts[2].name = "Retiro"

\* the members the claim counts as outer: way members whose role is
\* "outer", empty or not given, and whose way was fetched
ClaimedOuter(el) ==
    LET counted(m) ==
            /\ m.type = "way"
            /\ ("role" \notin DOMAIN m \/ m.role \in {"outer", ""})
            /\ m.ref \in DOMAIN ways
        kept == SelectSeq(get(el, "members", <<>>), counted)
    IN  [i \in 1..Len(kept) |-> kept[i].ref]

\* C13: the way-id list of a district is exactly the relation's way members
\* whose role is "outer", empty or unspecified and whose id is a fetched
\* way, in member order.
C13_OuterMembers ==
    pc = "parse_returned" =>
        LET made == SelectSeq(data, MakesArea)
        IN  /\ Len(districts) = Len(made)
            /\ \A i \in 1..Len(districts) :
                  districts[i].way_ids = ClaimedOuter(made[i])

\* the request failed: transport error, timeout or HTTP error status
RequestFailed ==
    \/ response.kind = "exception"
    \/ response.kind = "response" /\ response.status >= 400

C14_OneRequest ==
    /\ requests <= 1
    /\ pc # "main" => requests = 1
    /\ RequestFailed => pc = "fetch_failed" /\ out_file.writes = 0
    /\ out_file.writes > 0 =>
          /\ pc = "written"
          /\ Len(stitched) = Len(districts)
          /\ out_file.content[1].features = features

\* C14: a boundary fetch failure is fatal.  A run of main sends exactly one
\* request; when it fails (transport error, timeout or HTTP error status)
\* the run ends there: no second request, no later step, and the output
\* file is left as it was; the file changes only in the step that follows
\* parsing, simplification and assembly.
C14_FetchFailureFatal ==
    /\ []C14_OneRequest
    /\ [][pc # "fetch_failed"]_vars
    /\ [][out_file' # out_file => pc = "built" /\ pc' = "written"]_vars

\* the service answered 504 and the file of an earlier run is untouched
C14_Witness ==
    /\ pc = "fetch_failed"
    /\ response.kind = "response"
    /\ response.status = 504
    /\ requests = 1
    /\ out_file = OldFile

CountReported == pc \in {"parsed", "simplified", "raised", "built", "written"}

LowCountWarned ==
    \E i \in 1..Len(printed) : printed[i].text = "WARNING: Only found"

\* C15: whenever parse_data yields fewer districts than the known total of
\* 21, main prints a warning, and it goes on to simplify, assemble and
\* write the file all the same.
C15_WarnsBelowTotal ==
    /\ (CountReported /\ Len(districts) < KnownTotal) => LowCountWarned
    /\ pc # "raised"

\* the segments of area k: the places of its list whose way has points
SegmentPlaces(k) ==
    {p \in 1..Len(stitched[k].way_ids) :
        stitched[k].looked[stitched[k].way_ids[p]] # <<>>}

\* the places consumed by the candidates of area k before candidate j
ConsumedBefore(k, j) ==
    UNION {{stitched[k].candidates[i].seed}
           \cup {stitched[k].candidates[i].matches[m].pos :
                    m \in 1..Len(stitched[k].candidates[i].matches)}
              : i \in 1..(j - 1)}

\* the rings of a feature, in the order of its coordinates
FeatureRingSeq(f) ==
    IF f.geometry.type = "Polygon" THEN f.geometry.coordinates
    ELSE [i \in 1..Len(f.geometry.coordinates) |-> f.geometry.coordinates[i][1]]

EmitsFeature(s) == s.rings # <<>>

\* C16: the order of the output is fixed by the payload.  The features
\* are, in the order of their relations in the payload's elements, those
\* of the relations that made a district with a ring; within an area the
\* rings are in the order of their seeds, the seed of a ring being the
\* first segment of the area's list not yet consumed (so two runs on one
\* payload give the same FeatureCollection).
C16_OrderFixedByPayload ==
    pc \in {"built", "written"} =>
        LET made == SelectSeq(data, MakesArea)
            emitted == SelectSeq(stitched, EmitsFeature)
        IN  /\ Len(stitched) = Len(made)
            /\ \A k \in 1..Len(stitched) :
                  /\ stitched[k].name = TwoTier(RelName(made[k]))
                  /\ stitched[k].way_ids = outer_members(made[k], ways)
                  /\ \A j \in 1..Len(stitched[k].candidates) :
                        stitched[k].candidates[j].seed
                            = MinOf(SegmentPlaces(k) \ ConsumedBefore(k, j))
            /\ Len(features) = Len(emitted)
            /\ \A i \in 1..Len(features) :
                  /\ features[i].properties.name = emitted[i].name
                  /\ FeatureRingSeq(features[i]) = emitted[i].rings
                  /\ emitted[i].rings = AtLeast4(emitted[i].candidates)

\* the first area lists way 2 before way 1 and has the ring of way 2
\* first; the second area has no ring; the third is the second feature
C16_Witness ==
    /\ pc = "written"
    /\ Len(stitched) >= 3
    /\ stitched[1].way_ids = <<2, 1>>
    /\ stitched[2].rings = <<>>
    /\ stitched[3].rings # <<>>
    /\ Len(features) >= 2
    /\ features[1].properties.name = stitched[1].name
    /\ features[1].geometry.type = "MultiPolygon"
    /\ features[1].geometry.coordinates[1][1][1] = simplified_ways[2][1]
    /\ features[2].properties.name = stitched[3].name

\* an attempt that failed the way the function retries: a 5xx response, a
\* timeout or a request error
Retryable(r) == r.kind = "exception" \/ (r.kind = "response" /\ r.status >= 500)

Successful(r) == r.kind = "response" /\ r.status < 400

LastFailure(r) == IF r.kind = "response" THEN "HTTPStatusError" ELSE r.exc

\* C19: _fetch_with_retry(client, url, retries = n), n >= 1, calls
\* client.get at most n times; an attempt that ends in a 5xx response, a
\* timeout or a request error is followed by another attempt while attempts
\* remain; the first attempt with a successful response ends the call and
\* returns that response; if all n attempts fail it has made exactly n
\* calls and raises the last failure, HTTPStatusError for a 5xx and the
\* transport exception otherwise.
C19_BoundedRetry ==
    retries >= 1 =>
        /\ calls <= retries
        /\ \A i \in 1..(calls - 1) : Retryable(client[i])
        /\ pc = "retry" =>
              /\ calls = attempt
              /\ attempt < retries
              /\ \A i \in 1..calls : Retryable(client[i])
              /\ ENABLED RetryAttempt
        /\ pc = "retry_returned" =>
              /\ Successful(client[calls])
              /\ fetched = Returned(client[calls])
        /\ pc = "retry_raised" =>
              /\ ~Successful(client[calls])
              /\ Retryable(client[calls]) =>
                    /\ calls = retries
                    /\ fetched = Raised(LastFailure(client[calls]))
        /\ Len(slept) = IF pc = "retry" THEN calls ELSE calls - 1

\* three attempts, a 5xx, a timeout and a 5xx again: the third failure is
\* raised as HTTPStatusError
C19_Witness ==
    /\ pc = "retry_raised"
    /\ retries = 3
    /\ calls = 3
    /\ client[1].kind = "response"
    /\ client[2].kind = "exception"
    /\ client[3].kind = "response"
    /\ fetched = Raised("HTTPStatusError")
    /\ slept = <<1, 2>>

NonEmpty(rec, full) ==
    full \in DOMAIN rec /\ rec[full] # Str("") /\ rec[full] # None

\* C20: abbreviate omits empty values.  The abbreviated record has the
\* short key of a field only if the field's value is neither the empty
\* string nor None nor missing, and every non-empty field is there under its
\* short key with its value unchanged.
C20_OmitsEmptyValues ==
    pc = "abbreviated" =>
        \A i \in 1..Len(KEY_MAP) :
            /\ KEY_MAP[i].short \in DOMAIN abbreviated
                  <=> NonEmpty(record, KEY_MAP[i].full)
            /\ NonEmpty(record, KEY_MAP[i].full) =>
                  abbreviated[KEY_MAP[i].short] = record[KEY_MAP[i].full]

\* the places of the list a candidate consumed, its seed first
PlacesOf(c) == <<c.seed>> \o [m \in 1..Len(c.matches) |-> c.matches[m].pos]

RECURSIVE Flatten(_)
Flatten(ss) == IF ss = <<>> THEN <<>> ELSE Head(ss) \o Flatten(Tail(ss))

\* every place the candidates of area k consumed, in the order of consumption
ConsumedSeq(k) ==
    Flatten([j \in 1..Len(stitched[k].candidates) |->
                PlacesOf(stitched[k].candidates[j])])

\* C23: merge_ways_from_ids returns on every list of every area, with
\* nothing left in the pool: every place of the area's list whose id has points is consumed
\* exactly once, as the seed of one candidate or spliced into one, and no
\* other place is consumed.
C23_EachSegmentOnce ==
    /\ pc = "built" => Len(stitched) = Len(districts)
    /\ \A k \in 1..Len(stitched) :
          LET used == ConsumedSeq(k)
          IN  /\ \A i, j \in 1..Len(used) : used[i] = used[j] => i = j
              /\ {used[i] : i \in 1..Len(used)} = SegmentPlaces(k)

\* the list names one way twice: the first occurrence was the seed and the
\* second was spliced onto it, reversed
C23_Witness ==
    /\ pc = "built"
    /\ Len(stitched[1].way_ids) = 2
    /\ stitched[1].way_ids[1] = stitched[1].way_ids[2]
    /\ Len(stitched[1].candidates) = 1
    /\ stitched[1].candidates[1].seed = 1
    /\ stitched[1].candidates[1].matches = <<[pos |-> 2, case |-> 2]>>

\* the places of area k whose id has no points: absent from the lookup, or
\* stored with an empty list
SkippedPlaces(k) == (1..Len(stitched[k].way_ids)) \ SegmentPlaces(k)

IsNoRingsLine(line) == line.text = "WARNING: no rings for"

NoRingAreas == SelectSeq(stitched, LAMBDA s : s.rings = <<>>)

ClientError(r) == r.kind = "response" /\ r.status >= 400 /\ r.status < 500

\* C28: a 4xx response is not transient.  On whichever attempt client.get
\* answers with a 4xx status, that call is the last one: the function raises
\* HTTPStatusError at once, without a sleep after it and without another
\* call, however many attempts remain.
C28_ClientErrorNotRetried ==
    \A i \in 1..calls :
        ClientError(client[i]) =>
            /\ i = calls
            /\ pc = "retry_raised"
            /\ fetched = Raised("HTTPStatusError")
            /\ attempt = i - 1
            /\ Len(slept) = i - 1

\* the first of three attempts got a 404: one call, no sleep, the error
\* raised
C28_Witness ==
    /\ pc = "retry_raised"
    /\ retries = 3
    /\ calls = 1
    /\ ClientError(client[1])
    /\ slept = <<>>
    /\ fetched = Raised("HTTPStatusError")

\* C29: backoff schedule.  The sleep that follows failed attempt k (from 0)
\* lasts 2^k seconds; there is exactly one sleep between two consecutive
\* attempts and none after the last attempt made, successful or not; for
\* retries >= 1 the RuntimeError after the loop is never raised.
C29_BackoffSchedule ==
    /\ slept = [k \in 1..Len(slept) |-> 2 ^ (k - 1)]
    /\ pc = "retry" => Len(slept) = calls
    /\ (pc # "retry" /\ calls > 0) => Len(slept) = calls - 1
    /\ calls = 0 => slept = <<>>
    /\ retries >= 1 => fetched # Raised("RuntimeError")

\* two failures, then a success on the third attempt: sleeps of 1 and 2
\* seconds and none after the success
C29_Witness ==
    /\ pc = "retry_returned"
    /\ retries = 3
    /\ calls = 3
    /\ slept = <<1, 2>>
    /\ Successful(client[3])

\* what the stitcher did, without the points: per candidate its seed and
\* the segments spliced into it, with the match case of each
Matching(cands) ==
    [j \in 1..Len(cands) |->
        [seed |-> cands[j].seed, matches |-> cands[j].matches]]

\* C24: simplification and stitching commute on matching.  For every area,
\* the stitcher run on the simplified ways takes the same seeds, splices the
\* same segments in the same order by the same match cases, and groups
\* them into the same candidates as the stitcher run on the raw ways; every
\* way of at least one point keeps its first and last point.
C24_MatchingCommutes ==
    /\ \A k \in 1..Len(stitched) :
          Matching(stitched[k].candidates)
              = Matching(merge_ways_from_ids(stitched[k].way_ids, ways).candidates)
    /\ pc \in {"simplified", "built"} =>
          \A w \in DOMAIN ways :
              ways[w] # <<>> =>
                  /\ simplified_ways[w] # <<>>
                  /\ simplified_ways[w][1] = ways[w][1]
                  /\ Last(simplified_ways[w]) = Last(ways[w])

\* a way lost a point to simplification and the three ways were still
\* stitched into one candidate, one of them reversed
C24_Witness ==
    /\ pc = "built"
    /\ Len(stitched) = 1
    /\ \E w \in DOMAIN ways : Len(simplified_ways[w]) < Len(ways[w])
    /\ Len(stitched[1].candidates) = 1
    /\ Len(stitched[1].candidates[1].matches) = 2
    /\ \E m \in 1..2 : stitched[1].candidates[1].matches[m].case \in {2, 4}
    /\ stitched[1].rings # <<>>

ShorterCalls ==
    \A e \in 1..Len(dp_calls) :
        /\ Len(dp_calls[e].left) < Len(dp_calls[e].coords)
        /\ Len(dp_calls[e].right) < Len(dp_calls[e].coords)

SegmentDistance(p, a, b) ==
    LET ab == <<b[1] - a[1], b[2] - a[2]>>
        ap == <<p[1] - a[1], p[2] - a[2]>>
        bp == <<p[1] - b[1], p[2] - b[2]>>
        along == ap[1] * ab[1] + ap[2] * ab[2]
        len2 == Sq(ab[1]) + Sq(ab[2])
    IN  IF len2 = 0 \/ along <= 0 THEN [n |-> Sq(ap[1]) + Sq(ap[2]), d |-> 1]
        ELSE IF along >= len2 THEN [n |-> Sq(bp[1]) + Sq(bp[2]), d |-> 1]
        ELSE [n |-> Sq(ap[1] * ab[2] - ap[2] * ab[1]), d |-> len2]

KeptSet == {dp_kept[i] : i \in 1..Len(dp_kept)}

MaxOf(S) == CHOOSE m \in S : \A x \in S : x <= m

\* C25: tolerance bound.  For any input and any tolerance >= 0, the output
\* is the input's points at increasing places, and every input point that
\* was removed lies within the tolerance (clamped point-to-segment
\* distance) of the segment between the nearest kept point before it and
\* the nearest kept point after it.
C25_ToleranceBound ==
    (pc # "dp_start" /\ tolerance >= 0) =>
        /\ ~dp_result.raised
        /\ dp_result.value = [i \in 1..Len(dp_kept) |-> coords[dp_kept[i]]]
        /\ \A i \in 1..(Len(dp_kept) - 1) : dp_kept[i] < dp_kept[i + 1]
        /\ Len(coords) >= 1 => {1, Len(coords)} \subseteq KeptSet
        /\ \A i \in (1..Len(coords)) \ KeptSet :
              LET a == MaxOf({k \in KeptSet : k < i})
                  b == MinOf({k \in KeptSet : k > i})
              IN  WithinTolerance(SegmentDistance(coords[i], coords[a], coords[b]),
                                  tolerance)

\* of 4 points the second was kept and the third removed: the third is off
\* the segment from the second to the fourth, and within the tolerance of it
C25_Witness ==
    /\ pc = "dp_once"
    /\ tolerance > 0
    /\ Len(coords) = 4
    /\ dp_kept = <<1, 2, 4>>
    /\ SegmentDistance(coords[3], coords[2], coords[4]).n > 0

\* a >= b, both squared distances
AtLeast(a, b) == a.n * b.d >= b.n * a.d

\* the distance of the point at index i (from 0) to the first->last segment
DistAt(c, i) == SegmentDistance(c[i + 1], c[1], c[Len(c)])

\* the interior indices (from 0) whose distance is the largest
Farthest(c) ==
    {i \in 1..(Len(c) - 2) :
        \A j \in 1..(Len(c) - 2) : AtLeast(DistAt(c, i), DistAt(c, j))}

SlugsIn(records) ==
    {records[i].slug : i \in {j \in 1..Len(records) :
        "slug" \in DOMAIN records[j] /\ records[j].slug # ""}}

\* the record a data set holds for a slug: the last one of that slug
RecordFor(records, slug) ==
    records[CHOOSE i \in 1..Len(records) :
        /\ "slug" \in DOMAIN records[i]
        /\ records[i].slug = slug
        /\ \A j \in (i + 1)..Len(records) :
              ~("slug" \in DOMAIN records[j] /\ records[j].slug = slug)]

\* what str gives for the values in use, a missing field read as ""
AsString(r, field) ==
    IF field \notin DOMAIN r THEN ""
    ELSE IF r[field] = None THEN "None"
    ELSE IF r[field] = Float("8.0") THEN "8.0"
    ELSE r[field].str

FieldDiffers(slug) ==
    \E i \in 1..Len(COMPARE_FIELDS) :
        AsString(RecordFor(old_records, slug), COMPARE_FIELDS[i])
            # AsString(RecordFor(new_records, slug), COMPARE_FIELDS[i])

\* a list of slugs is ascending, which leaves no slug in it twice
Ascending(slugs) ==
    \A i \in 1..Len(slugs) : \A j \in (i + 1)..Len(slugs) :
        slug_rank(slugs[i]) < slug_rank(slugs[j])

SlugSet(slugs) == {slugs[i] : i \in 1..Len(slugs)}

ChangedSlugs == [i \in 1..Len(summary.changed) |-> summary.changed[i].slug]

\* C21: compare_records puts in added the slugs only the new data set has,
\* in removed the slugs only the old one has and in changed the slugs of
\* both whose records differ in a compared field as strings; the three
\* lists share no slug, each is ascending by slug, and added_count,
\* removed_count and changed_count are their lengths.
C21_ComparePartitions ==
    pc = "compared" =>
        /\ SlugSet(summary.added) = SlugsIn(new_records) \ SlugsIn(old_records)
        /\ SlugSet(summary.removed) = SlugsIn(old_records) \ SlugsIn(new_records)
        /\ SlugSet(ChangedSlugs) =
              {s \in SlugsIn(old_records) \cap SlugsIn(new_records) :
                  FieldDiffers(s)}
        /\ SlugSet(summary.added) \cap SlugSet(summary.removed) = {}
        /\ SlugSet(summary.added) \cap SlugSet(ChangedSlugs) = {}
        /\ SlugSet(summary.removed) \cap SlugSet(ChangedSlugs) = {}
        /\ Ascending(summary.added)
        /\ Ascending(summary.removed)
        /\ Ascending(ChangedSlugs)
        /\ summary.added_count = Len(summary.added)
        /\ summary.removed_count = Len(summary.removed)
        /\ summary.changed_count = Len(summary.changed)
        /\ summary.old_count = Len(old_records)
        /\ summary.new_count = Len(new_records)

\* slug "a" is in both data sets under another name and with the same
\* rating held as a str and as a float, slug "b" only in the old one
C21_Witness ==
    /\ pc = "compared"
    /\ Len(old_records) = 2
    /\ summary.added = <<>>
    /\ summary.removed = <<"b">>
    /\ summary.changed = <<[slug |-> "a", fields |-> <<"name">>]>>

\* the three output files hold the exports of the restaurants of this run
Overwritten ==
    /\ {csv_path, json_path, quality_report_path} \subseteq DOMAIN files
    /\ files[csv_path] = csv_text(restaurants)
    /\ files[json_path] = json_text(restaurants)
    /\ files[quality_report_path] = build_quality_report(restaurants)

Printed(line) == \E i \in 1..Len(printed) : printed[i] = line

\* C30: in scraper.main the CSV, the JSON and the quality report are
\* written before validate_data runs, so a run that a failed validation or
\* strict validation ends with status 1 leaves the three files overwritten
\* with the data that failed; strict validation is evaluated only with
\* --strict and after basic validation has passed.
C30_ExportsBeforeValidation ==
    [][ /\ evaluated' # evaluated =>
              /\ Overwritten
              /\ files' = files
        /\ (exit_code' = 1 /\ evaluated' # <<>>) => Overwritten'
        /\ evaluated' = Append(evaluated, "strict_coverage_errors") =>
              /\ "--strict" \in argv
              /\ evaluated = <<"validate_data">>
              /\ Printed(<<"Validation passed.">>)
              /\ ~Printed(<<"VALIDATION FAILED:">>)
        /\ evaluated' # evaluated =>
              \/ evaluated' = Append(evaluated, "strict_coverage_errors")
              \/ evaluated' = <<"validate_data">> ]_vars

\* strict validation has failed a run with --strict whose data passed the
\* basic validation, and the files hold that data
C30_Witness ==
    /\ pc = "exited"
    /\ exit_code = 1
    /\ evaluated = <<"validate_data", "strict_coverage_errors">>
    /\ Printed(<<"STRICT VALIDATION FAILED:">>)
    /\ Overwritten
    /\ restaurants # Restaurants(MIN_RESTAURANTS, 0, 0, 0)

====
